---------------------------- MODULE Spec2Model ----------------------------
(***************************************************************************)
(* A model of the round-robin load balancer: the backend record with its   *)
(* mutex-guarded liveness flag, the server pool with its atomic rotation   *)
(* cursor, the health-check pass and the request dispatcher.               *)
(*                                                                         *)
(* The pool's slice is held word by word: the header serverpool.backends   *)
(* (pointer, length, capacity) and the arrays that append allocates.       *)
(* AddBackend, which the code synchronises with nothing, is the sequence   *)
(* of loads and stores the gc compiler makes of                            *)
(*     serverPool.backends = append(serverPool.backends, backend)          *)
(* and every other operation reads the header one word at a time, so that  *)
(* a registration running beside a call shows the call whatever the words  *)
(* hold at that moment: the old slice, the new one, the new length over    *)
(* the old array, a slot not yet stored.                                   *)
(*                                                                         *)
(* Records are numbered 0, 1, 2, ... in the order in which they are made,  *)
(* so that in a pool registered by one AddBackend call after another the   *)
(* record at index k is record k.                                          *)
(*                                                                         *)
(* The cursor is a uint64 in the code.  The model holds it as the integer  *)
(* of least absolute value congruent to it modulo 2^64: 0, 1, 2, ... stand *)
(* for themselves and -1, -2, ... for 2^64 - 1, 2^64 - 2, ...  Adding one  *)
(* is then adding one (2^64 - 1 + 1 wraps to 0 as -1 + 1 = 0), and the     *)
(* wrap-around shows where the code reduces the uint64 modulo the pool's   *)
(* length.  The values held are bounded by TopSpan below the wrap and by   *)
(* MaxCursor above 0 (by LiveCursor where the health checker runs too).    *)
(***************************************************************************)
EXTENDS Integers, Sequences, FiniteSets, TLC

\* ------------------------------------------------------------ bounds
MaxBackends == 3
NumCallers == 2
NumRegistrars == 2
NumRacing == 1
MaxCursor == 6
TopSpan == 2
LiveCursor == 3
NumThreads == 3

Callers == 1 .. NumCallers
Threads == 1 .. NumThreads

\* The threads that call AddBackend, and those of them that do so while
\* selection calls, requests or health-check passes are running.
Registrars == 1 .. NumRegistrars
Racing == 1 .. NumRacing

\* The records that can be made, and the arrays append can allocate (one per
\* AddBackend call at most; array a + 1 is the one allocated for record a).
Records == 0 .. MaxBackends - 1
Arrays == 1 .. MaxBackends

\* The callers whose calls are followed read by read where the health
\* checker runs beside them; the callers are interchangeable.
Watched == {c \in Callers : c = 1}

\* nil *backend.Backend
Nil == -1

\* A word that is neither nil nor the address of a record: what a load
\* beyond the end of an array can find.
Wild == -2

\* The statuses an upstream answers with in the model: the two ends of the
\* health check's success class 200..299 and their outer neighbours.
Statuses == {199, 200, 299, 300}

\* the status codes an upstream answers a forwarded request with
Replies == {200, 404, 503}

\* What one health probe can come to: an error (network failure or timeout,
\* no response) or a response with a status.
Outcomes ==
    {[err |-> TRUE, status |-> 0]} \cup {[err |-> FALSE, status |-> s] : s \in Statuses}

VARIABLES
    backends,   \* ServerPool.backends: the slice header [ptr, len, cap]; ptr 0 is nil
    arrays,     \* the arrays allocated by append: per array, its slots (records, Nil where none is stored)
    Alive,      \* Backend.Alive of each record
    made,       \* the number of records made so far (and handed to AddBackend)
    current,    \* ServerPool.current
    pc,         \* per caller: where its call stands
    op,         \* per caller: the operation it is running
    new,        \* per caller: the value atomic.AddUint64 returned
    next,       \* per caller: GetNextPeer's local `next`
    length,     \* per caller: GetNextPeer's local `length`
    i,          \* per caller: GetNextPeer's loop variable
    idx,        \* per caller: GetNextPeer's local `idx`
    todo,       \* per caller: the header words its indexing has still to load
    cptr,       \* per caller: the array pointer its indexing loaded
    peer,       \* per caller: the element serverpool.backends[idx] it loaded
    ret,        \* per caller: the value the operation returned
    reply,      \* per caller: what LoadBalancerHandler wrote to the client
    hcpc,       \* the health checker: where its pass stands
    hctodo,     \* the health checker: the header words its range has still to load
    hcptr,      \* the health checker: the array of the slice its range loop took
    hclen,      \* the health checker: the length of the slice its range loop took
    hcidx,      \* the health checker: position of its range loop
    hcrec,      \* the health checker: its local `backend` of the current iteration
    hcalive,    \* the health checker: its local `alive` of the current iteration
    logs,       \* the lines log.Printf wrote during the current pass
    apc,        \* per registrar: where its AddBackend call stands
    arec,       \* per registrar: AddBackend's argument
    atodo,      \* per registrar: the words of the slice header append has still to load
    aptr,       \* per registrar: append's ptr (loaded, then the grown array's)
    alen,       \* per registrar: append's len (loaded)
    acap,       \* per registrar: append's cap (loaded, then the grown array's)
    mux,        \* Backend.mux of each record: held for writing, number of readers
    tpc,        \* per thread calling a Backend accessor: where the call stands
    top,        \* per thread: the accessor it is running
    tidx,       \* per thread: the record the accessor was called on
    targ,       \* per thread: SetAlive's argument
    tret,       \* per thread: IsAlive's local `alive`, which it returns
    \* ---- observers: history the code does not keep
    claim,      \* per caller: the value atomic.AddUint64 returned to it
    raced,      \* per caller followed: a registration was under way, or had left the pool damaged, during its call
    picks,      \* per caller: GetNextPeer calls made for the current request
    fwd,        \* per caller: backends the current request was forwarded to
    upstream,   \* per caller: what the upstream answered to the forward
    probes,     \* the probe outcomes of the current pass, in order
    hcraced,    \* a registration was under way, or had left the pool damaged, during the current pass
    hist,       \* the latest completed selection calls on the present pool
    runOp,      \* the one operation called on the pool since its creation, or "mixed"
    ncalls,     \* selection calls completed on the non-empty pool so far
    claimed,    \* the values the atomic increment has handed out, up to the first repeat
    dup,        \* an increment handed out a value it had handed out before
    overwritten, \* some GetNextPeer has overwritten the cursor
    wrapped,    \* some increment has wrapped the cursor round to 0
    lastWrite,  \* per record: the value of the latest write that took effect
    seen,       \* per thread: lastWrite of its record when its read took effect
    must,       \* per thread: the values its read may return, by real-time order
    added,      \* the records handed to the AddBackend calls that have returned, in order
    overlap,    \* two AddBackend calls have run at the same time
    completed,  \* the cursor at the start plus the selection calls returned since on the pool of alive backends
    reads,      \* per caller followed: the IsAlive reads of its call, in order
    steady      \* per caller followed: the records whose flag has kept its value since the call began

memVars == <<backends, arrays>>
recVars == <<Alive, made>>
poolVars == <<memVars, recVars, current>>
callVars == <<pc, op, new, next, length, i, idx, todo, cptr, peer, ret, reply>>
hcVars == <<hcpc, hctodo, hcptr, hclen, hcidx, hcrec, hcalive, logs>>
regVars == <<apc, arec, atodo, aptr, alen, acap>>
lockVars == <<mux, tpc, top, tidx, targ, tret>>
progVars == <<poolVars, callVars, hcVars, regVars, lockVars>>

callObs == <<claim, raced>>
reqObs == <<picks, fwd, upstream>>
hcObs == <<probes, hcraced>>
seqObs == <<hist, runOp, ncalls>>
claimObs == <<claimed, dup, overwritten, wrapped>>
lockObs == <<lastWrite, seen, must>>
regObs == <<added, overlap>>
liveObs == <<reads, steady>>
obsVars == <<callObs, reqObs, hcObs, seqObs, claimObs, lockObs, regObs, completed, liveObs>>

vars == <<progVars, obsVars>>

\* len(serverpool.backends): one load of the header's length word
Len0 == backends.len

NoReply == [status |-> 0, body |-> <<>>]

\* no value of the cursor: the caller has made no increment
NoClaim == 0 - TopSpan - 1

\* the nil slice of a new pool
NilSlice == [ptr |-> 0, len |-> 0, cap |-> 0]

\* the two words of the header that indexing and ranging load
HeaderWords == {"ptr", "len"}

\* The words of the slice header that append loads.
AppendWords == {"ptr", "len", "cap"}

\* http.Error(writer, "Service not available", http.StatusServiceUnavailable)
Unavailable == [status |-> 503, body |-> <<"Service not available">>]

\* the body an upstream answers with names the upstream
BodyOf(rec) == <<"upstream", rec>>

\* 2^64 modulo len, from 2^64 = (2^16)^4
TwoTo64Mod(len) ==
    LET r == (2 ^ 16) % len
        s == (r * r) % len
    IN  (s * s) % len

\* Variants of the definitions below: each is one plausible slip of the code.
IsAliveInverted(rec) == ~Alive[rec]
AddUint64Lost(cur) == cur
AddUint64Twice(cur) == cur + 2
IndexOfOld(val, len) ==
    IF val - 1 >= 0 THEN (val - 1) % len
    ELSE (TwoTo64Mod(len) + ((val - 1) % len)) % len
ScanLimitShort(len, nxt) == len + nxt - 1
ScanLimitNoWrap(len, nxt) == len

\* Backend.IsAlive: the read of Alive under the read lock
IsAlive(rec) == Alive[rec]

SetAliveAll(rec, alive) == [r \in Records |-> alive]

\* Backend.SetAlive: the write of Alive under the write lock
SetAlive(rec, alive) == [Alive EXCEPT ![rec] = alive]

\* atomic.AddUint64(&current, 1): the new value (modulo 2^64, which the
\* cursor's representation takes care of)
AddUint64(cur) == cur + 1

\* NextIndex: int(val % uint64(len(serverpool.backends))), val being the
\* uint64 that the cursor's representation stands for
IndexOf(val, len) ==
    IF val >= 0 THEN val % len
    ELSE (TwoTo64Mod(len) + (val % len)) % len

\* GetNextPeer: length := len(serverpool.backends) + next
ScanLimit(len, nxt) == len + nxt

StoredIndexPlusOne(k) == k + 1

\* GetNextPeer: the value atomic.StoreUint64 writes, uint64(idx)
StoredIndex(k) == k

\* append: the length of the slice with one element more
NewLen(len) == len + 1

\* append: the capacity of the array growslice allocates for a slice of
\* newLen pointers grown from capacity oldCap (doubled below 256 elements,
\* then rounded up to the allocator's size class: 8, 16, 24, 32, 48, 64,
\* 80, ... bytes)
GrowCap(newLen, oldCap) ==
    LET want == IF newLen > 2 * oldCap THEN newLen ELSE 2 * oldCap
    IN  IF want <= 4 THEN want ELSE want + (want % 2)

\* What a load of slot k (from 0) of the array at p can return: the slot's
\* word, or whatever lies behind the array when k is beyond its end.
Loadable(p, k) ==
    IF k < Len(arrays[p]) THEN {arrays[p][k + 1]}
    ELSE {Wild, Nil} \cup {r \in Records : r < made}

\* HealthCheck: alive is false unless the GET returned no error and a 2xx status
ProbeAliveUpTo300(err, status) == (~err) /\ status >= 200 /\ status <= 300

ProbeAlive(err, status) == (~err) /\ status >= 200 /\ status < 300

\* HealthCheck: the word it logs
StatusWord(alive) == IF alive THEN "up" ELSE "down"

\* sync.RWMutex, unlocked
Unlocked == [w |-> FALSE, r |-> 0]

\* mux.Lock() goes through when no writer and no reader holds the mutex
CanLock(m) == ~m.w /\ m.r = 0

CanRLockAlways(m) == TRUE

\* mux.RLock() goes through when no writer holds the mutex
CanRLock(m) == ~m.w

NewSlotFirst(len) == 0

\* append: the slot (from 0) the new element is stored in
NewSlot(len) == len

\* The header and the arrays after n AddBackend calls made one after another
\* on a new pool.
RECURSIVE Built(_)
Built(n) ==
    IF n = 0 THEN [hdr |-> NilSlice, arrs |-> [a \in Arrays |-> <<>>]]
    ELSE LET b == Built(n - 1)
             h == b.hdr
         IN  IF n > h.cap
               THEN LET c == GrowCap(n, h.cap) IN
                    [hdr |-> [ptr |-> n, len |-> n, cap |-> c],
                     arrs |-> [b.arrs EXCEPT ![n] =
                                 [k \in 1 .. c |-> IF k <= n THEN k - 1 ELSE Nil]]]
               ELSE [hdr |-> [h EXCEPT !.len = n],
                     arrs |-> [b.arrs EXCEPT ![h.ptr][n] = n - 1]]

\* The flag sequences of the pools of at least one record.
Pools == UNION {[1 .. n -> BOOLEAN] : n \in 1 .. MaxBackends}

\* The state in which the records of flags bs have been registered one
\* after another, the cursor is cur and nothing is running.
InitWith(bs, cur) ==
    /\ backends = Built(Len(bs)).hdr
    /\ arrays = Built(Len(bs)).arrs
    /\ Alive = [r \in Records |-> IF r < Len(bs) THEN bs[r + 1] ELSE FALSE]
    /\ made = Len(bs)
    /\ current = cur
    /\ pc = [c \in Callers |-> "idle"]
    /\ op = [c \in Callers |-> "none"]
    /\ new = [c \in Callers |-> 0]
    /\ next = [c \in Callers |-> 0]
    /\ length = [c \in Callers |-> 0]
    /\ i = [c \in Callers |-> 0]
    /\ idx = [c \in Callers |-> 0]
    /\ todo = [c \in Callers |-> {}]
    /\ cptr = [c \in Callers |-> 0]
    /\ peer = [c \in Callers |-> Nil]
    /\ ret = [c \in Callers |-> Nil]
    /\ reply = [c \in Callers |-> NoReply]
    /\ hcpc = "idle"
    /\ hctodo = {}
    /\ hcptr = 0
    /\ hclen = 0
    /\ hcidx = 0
    /\ hcrec = Nil
    /\ hcalive = FALSE
    /\ logs = <<>>
    /\ apc = [g \in Registrars |-> "idle"]
    /\ arec = [g \in Registrars |-> Nil]
    /\ atodo = [g \in Registrars |-> {}]
    /\ aptr = [g \in Registrars |-> 0]
    /\ alen = [g \in Registrars |-> 0]
    /\ acap = [g \in Registrars |-> 0]
    /\ mux = [r \in Records |-> Unlocked]
    /\ tpc = [t \in Threads |-> "idle"]
    /\ top = [t \in Threads |-> "none"]
    /\ tidx = [t \in Threads |-> 0]
    /\ targ = [t \in Threads |-> FALSE]
    /\ tret = [t \in Threads |-> FALSE]
    /\ lastWrite = [r \in Records |-> IF r < Len(bs) THEN bs[r + 1] ELSE FALSE]
    /\ seen = [t \in Threads |-> FALSE]
    /\ must = [t \in Threads |-> BOOLEAN]
    /\ claim = [c \in Callers |-> NoClaim]
    /\ raced = [c \in Callers |-> FALSE]
    /\ picks = [c \in Callers |-> 0]
    /\ fwd = [c \in Callers |-> <<>>]
    /\ upstream = [c \in Callers |-> NoReply]
    /\ probes = <<>>
    /\ hcraced = FALSE
    /\ hist = <<>>
    /\ runOp = IF bs = <<>> THEN "none" ELSE "mixed"
    /\ ncalls = 0
    /\ claimed = {}
    /\ dup = FALSE
    /\ overwritten = FALSE
    /\ wrapped = FALSE
    /\ added = [k \in 1 .. Len(bs) |-> k - 1]
    /\ overlap = FALSE
    /\ completed = cur
    /\ reads = [c \in Callers |-> <<>>]
    /\ steady = [c \in Callers |-> {}]

\* NewServerPool: no backends, cursor 0.
Init == InitWith(<<>>, 0)

\* The pool long into its life: its records registered one after another,
\* of whatever liveness, and the cursor, after 2^64 - TopSpan increments,
\* TopSpan short of wrapping round.
Aged == \E bs \in Pools : InitWith(bs, 0 - TopSpan)

\* ----------------------------------------------------- registration
\* AddBackend, serverPool.backends = append(serverPool.backends, backend),
\* as the gc compiler lays it out for an append assigned to its own slice:
\*     ptr, len, cap := s
\*     if len + 1 > cap { ptr, cap = growslice(...); s.cap = cap; s.ptr = ptr }
\*     s.len = len + 1
\*     ptr[len] = backend
\* No lock and no atomic operation orders these loads and stores with
\* anything else that reads or writes the slice, and the three words of the
\* header are loaded in an order the compiler chooses.

\* The caller has made the record (with its Alive field set) and calls
\* AddBackend with it.  (made < MaxBackends bounds the model.)
AddBackendCall(g, alive) ==
    /\ apc[g] = "idle"
    /\ made < MaxBackends
    /\ made' = made + 1
    /\ Alive' = [Alive EXCEPT ![made] = alive]
    /\ arec' = [arec EXCEPT ![g] = made]
    /\ atodo' = [atodo EXCEPT ![g] = AppendWords]
    /\ apc' = [apc EXCEPT ![g] = "load"]
    /\ UNCHANGED <<memVars, current, callVars, hcVars, aptr, alen, acap, lockVars>>

\* Where append goes on from a load: to the next load, or, with the three
\* words loaded, to the test len + 1 > cap.
Loaded(words, len, cap) ==
    IF words # {} THEN "load"
    ELSE IF NewLen(len) > cap THEN "grow" ELSE "storelen"

\* ptr := s.ptr
AddBackendLoadPtr(g) ==
    /\ apc[g] = "load"
    /\ "ptr" \in atodo[g]
    /\ aptr' = [aptr EXCEPT ![g] = backends.ptr]
    /\ atodo' = [atodo EXCEPT ![g] = @ \ {"ptr"}]
    /\ apc' = [apc EXCEPT ![g] = Loaded(atodo'[g], alen[g], acap[g])]
    /\ UNCHANGED <<poolVars, callVars, hcVars, arec, alen, acap, lockVars>>

\* len := s.len
AddBackendLoadLen(g) ==
    /\ apc[g] = "load"
    /\ "len" \in atodo[g]
    /\ alen' = [alen EXCEPT ![g] = backends.len]
    /\ atodo' = [atodo EXCEPT ![g] = @ \ {"len"}]
    /\ apc' = [apc EXCEPT ![g] = Loaded(atodo'[g], alen'[g], acap[g])]
    /\ UNCHANGED <<poolVars, callVars, hcVars, arec, aptr, acap, lockVars>>

\* cap := s.cap
AddBackendLoadCap(g) ==
    /\ apc[g] = "load"
    /\ "cap" \in atodo[g]
    /\ acap' = [acap EXCEPT ![g] = backends.cap]
    /\ atodo' = [atodo EXCEPT ![g] = @ \ {"cap"}]
    /\ apc' = [apc EXCEPT ![g] = Loaded(atodo'[g], alen[g], acap'[g])]
    /\ UNCHANGED <<poolVars, callVars, hcVars, arec, aptr, alen, lockVars>>

\* growslice: a new array of the grown capacity, the len elements copied
\* from the array at ptr, the other slots nil.  Copying len > 0 elements
\* from a nil ptr (a header loaded torn) faults; copying from beyond the
\* old array's end copies whatever lies there.
AddBackendGrow(g) ==
    /\ apc[g] = "grow"
    /\ IF aptr[g] = 0 /\ alen[g] > 0
         THEN /\ apc' = [apc EXCEPT ![g] = "panic"]
              /\ UNCHANGED <<arrays, aptr, acap>>
         ELSE LET c == GrowCap(NewLen(alen[g]), acap[g]) IN
              /\ \E old \in [0 .. alen[g] - 1 -> {Wild, Nil} \cup Records] :
                   /\ \A k \in 0 .. alen[g] - 1 : old[k] \in Loadable(aptr[g], k)
                   /\ arrays' = [arrays EXCEPT ![arec[g] + 1] =
                                   [k \in 1 .. c |-> IF k <= alen[g] THEN old[k - 1] ELSE Nil]]
              /\ aptr' = [aptr EXCEPT ![g] = arec[g] + 1]
              /\ acap' = [acap EXCEPT ![g] = c]
              /\ apc' = [apc EXCEPT ![g] = "storecap"]
    /\ UNCHANGED <<backends, recVars, current, callVars, hcVars, arec, atodo, alen, lockVars>>

\* s.cap = cap
AddBackendStoreCap(g) ==
    /\ apc[g] = "storecap"
    /\ backends' = [backends EXCEPT !.cap = acap[g]]
    /\ apc' = [apc EXCEPT ![g] = "storeptr"]
    /\ UNCHANGED <<arrays, recVars, current, callVars, hcVars, arec, atodo, aptr, alen, acap, lockVars>>

\* s.ptr = ptr
AddBackendStorePtr(g) ==
    /\ apc[g] = "storeptr"
    /\ backends' = [backends EXCEPT !.ptr = aptr[g]]
    /\ apc' = [apc EXCEPT ![g] = "storelen"]
    /\ UNCHANGED <<arrays, recVars, current, callVars, hcVars, arec, atodo, aptr, alen, acap, lockVars>>

\* s.len = len + 1
AddBackendStoreLen(g) ==
    /\ apc[g] = "storelen"
    /\ backends' = [backends EXCEPT !.len = NewLen(alen[g])]
    /\ apc' = [apc EXCEPT ![g] = "elem"]
    /\ UNCHANGED <<arrays, recVars, current, callVars, hcVars, arec, atodo, aptr, alen, acap, lockVars>>

\* The arrays after the store ptr[len] = backend.  append does not check
\* the index against the array: a store beyond the array's end (ptr and
\* len from a header loaded torn) writes memory behind the array, which is
\* none of the pool's arrays, and leaves them as they are.
Stored(p, k, rec) ==
    IF k < Len(arrays[p]) THEN [arrays EXCEPT ![p][k + 1] = rec]
    ELSE arrays

\* ptr[len] = backend, and AddBackend returns.  A store through a nil ptr
\* (from a header loaded torn) faults: the runtime panics and the call
\* does not return.
AddBackendStoreElem(g) ==
    /\ apc[g] = "elem"
    /\ IF aptr[g] # 0
         THEN /\ arrays' = Stored(aptr[g], NewSlot(alen[g]), arec[g])
              /\ apc' = [apc EXCEPT ![g] = "idle"]
              /\ arec' = [arec EXCEPT ![g] = Nil]
              /\ aptr' = [aptr EXCEPT ![g] = 0]
              /\ alen' = [alen EXCEPT ![g] = 0]
              /\ acap' = [acap EXCEPT ![g] = 0]
         ELSE /\ apc' = [apc EXCEPT ![g] = "panic"]
              /\ UNCHANGED <<arrays, arec, aptr, alen, acap>>
    /\ UNCHANGED <<backends, recVars, current, callVars, hcVars, atodo, lockVars>>

\* AddBackend from its first load to its return.
AddBackend(g) ==
    \/ AddBackendLoadPtr(g)
    \/ AddBackendLoadLen(g)
    \/ AddBackendLoadCap(g)
    \/ AddBackendGrow(g)
    \/ AddBackendStoreCap(g)
    \/ AddBackendStorePtr(g)
    \/ AddBackendStoreLen(g)
    \/ AddBackendStoreElem(g)

\* ------------------------------------------------- selection calls

\* The calls that have passed NextIndex's test and not yet made their
\* increment, and the bound b on the cursor: a call begins only if the
\* increments already due leave it room below b.  (A bound of the model.)
Pending == Cardinality({d \in Callers : pc[d] \in {"test", "add"}})
Room(b) == current + Pending < b

\* The run-time panic of caller c's goroutine: an index out of range, a nil
\* or wild pointer dereferenced, a division by zero.
Panics(c) ==
    /\ pc' = [pc EXCEPT ![c] = "panic"]
    /\ length' = [length EXCEPT ![c] = 0]
    /\ i' = [i EXCEPT ![c] = 0]
    /\ idx' = [idx EXCEPT ![c] = 0]
    /\ todo' = [todo EXCEPT ![c] = {}]
    /\ cptr' = [cptr EXCEPT ![c] = 0]
    /\ peer' = [peer EXCEPT ![c] = Nil]
    /\ UNCHANGED <<new, next, ret>>

\* GetNextPeer returns peer to the one who called it (o): the handler goes
\* on to answer the client, a direct caller is done.  The loop is over and
\* its locals gone; the start index stays on record until the caller goes
\* on.
PeerReturns(c, o, rec) ==
    /\ pc' = [pc EXCEPT ![c] = IF o = "Handler" THEN "respond" ELSE "done"]
    /\ ret' = [ret EXCEPT ![c] = rec]
    /\ length' = [length EXCEPT ![c] = 0]
    /\ i' = [i EXCEPT ![c] = 0]
    /\ idx' = [idx EXCEPT ![c] = 0]
    /\ todo' = [todo EXCEPT ![c] = {}]
    /\ cptr' = [cptr EXCEPT ![c] = 0]
    /\ peer' = [peer EXCEPT ![c] = Nil]

\* NextIndex returns v: to its direct caller, or into GetNextPeer's `next`.
NextIndexReturns(c, o, v) ==
    IF o = "NextIndex"
      THEN /\ pc' = [pc EXCEPT ![c] = "done"]
           /\ ret' = [ret EXCEPT ![c] = v]
           /\ UNCHANGED next
      ELSE /\ pc' = [pc EXCEPT ![c] = "length"]
           /\ next' = [next EXCEPT ![c] = v]
           /\ UNCHANGED ret

\* NextIndex with the increment made before the test for an empty pool.
NextIndexIncrementsFirst(c) ==
    /\ pc[c] = "idle"
    /\ Room(MaxCursor)
    /\ op' = [op EXCEPT ![c] = "NextIndex"]
    /\ current' = AddUint64(current)
    /\ IF Len0 = 0
         THEN /\ NextIndexReturns(c, "NextIndex", 0)
              /\ UNCHANGED new
         ELSE /\ pc' = [pc EXCEPT ![c] = "mod"]
              /\ new' = [new EXCEPT ![c] = current']
              /\ UNCHANGED <<next, ret>>
    /\ UNCHANGED <<memVars, recVars, length, i, idx, todo, cptr, peer, reply, hcVars, regVars, lockVars>>

\* NextIndex called directly, its test len(serverpool.backends) == 0: 0 on
\* an empty pool, else on to the increment.  (Room bounds the model.)
NextIndex(c) ==
    /\ pc[c] = "idle"
    /\ Len0 = 0 \/ Room(MaxCursor)
    /\ op' = [op EXCEPT ![c] = "NextIndex"]
    /\ IF Len0 = 0
         THEN NextIndexReturns(c, "NextIndex", 0)
         ELSE /\ pc' = [pc EXCEPT ![c] = "add"]
              /\ UNCHANGED <<next, ret>>
    /\ UNCHANGED <<poolVars, new, length, i, idx, todo, cptr, peer, reply, hcVars, regVars, lockVars>>

\* GetNextPeer is entered (o says who called it: a direct caller or
\* LoadBalancerHandler), its test len(serverpool.backends) == 0: nil on an
\* empty pool, else the call of NextIndex.  (Room bounds the model.)
GetNextPeerEnter(c, o) ==
    /\ pc[c] = "idle"
    /\ Len0 = 0 \/ Room(MaxCursor)
    /\ op' = [op EXCEPT ![c] = o]
    /\ IF Len0 = 0
         THEN PeerReturns(c, o, Nil)
         ELSE /\ pc' = [pc EXCEPT ![c] = "test"]
              /\ UNCHANGED <<length, i, idx, todo, cptr, peer, ret>>
    /\ UNCHANGED <<poolVars, new, next, reply, hcVars, regVars, lockVars>>

\* NextIndex called by GetNextPeer, its test len(serverpool.backends) == 0,
\* a load of the length of its own.
NextIndexTest(c) ==
    /\ pc[c] = "test"
    /\ IF Len0 = 0
         THEN NextIndexReturns(c, op[c], 0)
         ELSE /\ pc' = [pc EXCEPT ![c] = "add"]
              /\ UNCHANGED <<next, ret>>
    /\ UNCHANGED <<poolVars, op, new, length, i, idx, todo, cptr, peer, reply, hcVars, regVars, lockVars>>

\* NextIndex: atomic.AddUint64(&serverpool.current, uint64(1))
NextIndexAdd(c) ==
    /\ pc[c] = "add"
    /\ current' = AddUint64(current)
    /\ new' = [new EXCEPT ![c] = current']
    /\ pc' = [pc EXCEPT ![c] = "mod"]
    /\ UNCHANGED <<memVars, recVars, op, next, length, i, idx, todo, cptr, peer, ret, reply, hcVars, regVars, lockVars>>

\* NextIndex: the load of len(serverpool.backends) that follows the
\* increment, the remainder, and the return.
NextIndexMod(c) ==
    /\ pc[c] = "mod"
    /\ new' = [new EXCEPT ![c] = 0]
    /\ IF Len0 = 0
         THEN /\ pc' = [pc EXCEPT ![c] = "panic"]
              /\ UNCHANGED <<next, ret>>
         ELSE NextIndexReturns(c, op[c], IndexOf(new[c], Len0))
    /\ UNCHANGED <<poolVars, op, length, i, idx, todo, cptr, peer, reply, hcVars, regVars, lockVars>>

\* GetNextPeer: length := len(serverpool.backends) + next, i := next and the
\* loop's first test.  The length is loaded anew.
GetNextPeerLength(c) ==
    /\ pc[c] = "length"
    /\ LET lim == ScanLimit(Len0, next[c]) IN
       IF next[c] < lim
         THEN /\ pc' = [pc EXCEPT ![c] = "index"]
              /\ length' = [length EXCEPT ![c] = lim]
              /\ i' = [i EXCEPT ![c] = next[c]]
              /\ UNCHANGED <<idx, todo, cptr, peer, ret>>
         ELSE PeerReturns(c, op[c], Nil)
    /\ UNCHANGED <<poolVars, op, new, next, reply, hcVars, regVars, lockVars>>

\* The loop's body, first statement: idx := i % len(serverpool.backends),
\* the length loaded anew.
GetNextPeerIndex(c) ==
    /\ pc[c] = "index"
    /\ IF Len0 = 0
         THEN Panics(c)
         ELSE /\ idx' = [idx EXCEPT ![c] = i[c] % Len0]
              /\ todo' = [todo EXCEPT ![c] = HeaderWords]
              /\ pc' = [pc EXCEPT ![c] = "header"]
              /\ UNCHANGED <<new, next, length, i, cptr, peer, ret>>
    /\ UNCHANGED <<poolVars, op, reply, hcVars, regVars, lockVars>>

\* The call goes on from the header loads to the load of the element.
Indexed(c, words) ==
    IF words = {}
      THEN IF pc[c] = "header" THEN "element" ELSE "relement"
      ELSE pc[c]

\* serverpool.backends[idx], in the loop's test and in the return
\* statement: the load of the length and the bounds check.  The two header
\* words are loaded in an order the compiler chooses.
GetNextPeerLoadLen(c) ==
    /\ pc[c] \in {"header", "rheader"}
    /\ "len" \in todo[c]
    /\ IF idx[c] < Len0
         THEN /\ todo' = [todo EXCEPT ![c] = @ \ {"len"}]
              /\ pc' = [pc EXCEPT ![c] = Indexed(c, todo'[c])]
              /\ UNCHANGED <<new, next, length, i, idx, cptr, peer, ret>>
         ELSE Panics(c)
    /\ UNCHANGED <<poolVars, op, reply, hcVars, regVars, lockVars>>

\* serverpool.backends[idx]: the load of the array pointer.
GetNextPeerLoadPtr(c) ==
    /\ pc[c] \in {"header", "rheader"}
    /\ "ptr" \in todo[c]
    /\ cptr' = [cptr EXCEPT ![c] = backends.ptr]
    /\ todo' = [todo EXCEPT ![c] = @ \ {"ptr"}]
    /\ pc' = [pc EXCEPT ![c] = Indexed(c, todo'[c])]
    /\ UNCHANGED <<poolVars, op, new, next, length, i, idx, peer, ret, reply, hcVars, regVars, lockVars>>

\* serverpool.backends[idx] in the loop's test: the load of the element.
GetNextPeerElement(c) ==
    /\ pc[c] = "element"
    /\ IF cptr[c] = 0
         THEN Panics(c)
         ELSE /\ \E w \in Loadable(cptr[c], idx[c]) : peer' = [peer EXCEPT ![c] = w]
              /\ cptr' = [cptr EXCEPT ![c] = 0]
              /\ pc' = [pc EXCEPT ![c] = "alive"]
              /\ UNCHANGED <<new, next, length, i, idx, todo, ret>>
    /\ UNCHANGED <<poolVars, op, reply, hcVars, regVars, lockVars>>

\* The loop's test: IsAlive() of the element loaded, which waits while a
\* writer holds the record's mutex.  Alive at the start index: go and
\* return it.  Alive further on: go and overwrite the cursor.  Dead: i++
\* and the loop's test against length, nil when the pass is over.  A nil
\* element (a slot not yet stored) and a wild one panic.
GetNextPeerIsAlive(c) ==
    /\ pc[c] = "alive"
    /\ IF peer[c] \notin Records
         THEN Panics(c)
         ELSE /\ CanRLock(mux[peer[c]])
              /\ IF IsAlive(peer[c])
                   THEN /\ pc' = [pc EXCEPT ![c] = IF i[c] # next[c] THEN "store" ELSE "rheader"]
                        /\ todo' = [todo EXCEPT ![c] = IF i[c] # next[c] THEN {} ELSE HeaderWords]
                        /\ peer' = [peer EXCEPT ![c] = Nil]
                        /\ UNCHANGED <<new, next, length, i, idx, cptr, ret>>
                   ELSE IF i[c] + 1 < length[c]
                          THEN /\ i' = [i EXCEPT ![c] = @ + 1]
                               /\ pc' = [pc EXCEPT ![c] = "index"]
                               /\ idx' = [idx EXCEPT ![c] = 0]
                               /\ peer' = [peer EXCEPT ![c] = Nil]
                               /\ UNCHANGED <<new, next, length, todo, cptr, ret>>
                          ELSE /\ PeerReturns(c, op[c], Nil)
                               /\ UNCHANGED <<new, next>>
    /\ UNCHANGED <<poolVars, op, reply, hcVars, regVars, lockVars>>

\* atomic.StoreUint64(&serverpool.current, uint64(idx))
GetNextPeerStore(c) ==
    /\ pc[c] = "store"
    /\ current' = StoredIndex(idx[c])
    /\ pc' = [pc EXCEPT ![c] = "rheader"]
    /\ todo' = [todo EXCEPT ![c] = HeaderWords]
    /\ UNCHANGED <<memVars, recVars, op, new, next, length, i, idx, cptr, peer, ret, reply, hcVars, regVars, lockVars>>

\* return serverpool.backends[idx]: the load of the element, and the
\* return of whatever it holds.
GetNextPeerReturn(c) ==
    /\ pc[c] = "relement"
    /\ IF cptr[c] = 0
         THEN Panics(c)
         ELSE /\ \E w \in Loadable(cptr[c], idx[c]) : PeerReturns(c, op[c], w)
              /\ UNCHANGED <<new, next>>
    /\ UNCHANGED <<poolVars, op, reply, hcVars, regVars, lockVars>>

\* What LoadBalancerHandler writes to the client once GetNextPeer has
\* returned peer: what the peer's ReverseProxy relays (answer), or
\* http.Error's 503.
HandlerReplyAlwaysRelays(rec, answer) == answer

HandlerReply(rec, answer) == IF rec # Nil THEN answer ELSE Unavailable

\* LoadBalancerHandler after GetNextPeer returned: ReverseProxy.ServeHTTP of
\* the peer, which relays the upstream's status and body (the body names the
\* upstream), or http.Error.  A peer that is no record (a word loaded from
\* beyond an array) panics at peer.ReverseProxy.
HandlerRespond(c, status) ==
    /\ pc[c] = "respond"
    /\ IF ret[c] = Wild
         THEN /\ pc' = [pc EXCEPT ![c] = "panic"]
              /\ UNCHANGED reply
         ELSE /\ pc' = [pc EXCEPT ![c] = "done"]
              /\ reply' = [reply EXCEPT ![c] = HandlerReply(ret[c], [status |-> status, body |-> BodyOf(ret[c])])]
    /\ UNCHANGED <<poolVars, op, new, next, length, i, idx, todo, cptr, peer, ret, hcVars, regVars, lockVars>>

\* The call is over and the caller is free for its next one.
Return(c) ==
    /\ pc[c] = "done"
    /\ pc' = [pc EXCEPT ![c] = "idle"]
    /\ op' = [op EXCEPT ![c] = "none"]
    /\ next' = [next EXCEPT ![c] = 0]
    /\ ret' = [ret EXCEPT ![c] = Nil]
    /\ reply' = [reply EXCEPT ![c] = NoReply]
    /\ UNCHANGED <<poolVars, new, length, i, idx, todo, cptr, peer, hcVars, regVars, lockVars>>

\* A GetNextPeer call from NextIndex's test to the return.
GetNextPeer(c) ==
    \/ NextIndexTest(c)
    \/ NextIndexAdd(c)
    \/ NextIndexMod(c)
    \/ GetNextPeerLength(c)
    \/ GetNextPeerIndex(c)
    \/ GetNextPeerLoadLen(c)
    \/ GetNextPeerLoadPtr(c)
    \/ GetNextPeerElement(c)
    \/ GetNextPeerIsAlive(c)
    \/ GetNextPeerStore(c)
    \/ GetNextPeerReturn(c)

\* ------------------------------------------------- the health checker

\* HealthCheck is entered: the range loop is about to take the slice.
HealthCheckStart ==
    /\ hcpc = "idle"
    /\ hcpc' = "range"
    /\ hctodo' = HeaderWords
    /\ logs' = <<>>
    /\ UNCHANGED <<poolVars, callVars, hcptr, hclen, hcidx, hcrec, hcalive, regVars, lockVars>>

\* The pass goes on from the header loads to its first iteration, or is
\* over at once on an empty slice.
Ranged(words, len) ==
    IF words # {} THEN "range"
    ELSE IF len = 0 THEN "done" ELSE "load"

\* for _, backend := range serverPool.backends: the load of the length.
\* The range loop takes the header once, its two words loaded in an order
\* the compiler chooses; records registered later are not in this pass.
HealthCheckLoadLen ==
    /\ hcpc = "range"
    /\ "len" \in hctodo
    /\ hclen' = Len0
    /\ hctodo' = hctodo \ {"len"}
    /\ hcpc' = Ranged(hctodo', hclen')
    /\ UNCHANGED <<poolVars, callVars, hcptr, hcidx, hcrec, hcalive, logs, regVars, lockVars>>

\* for _, backend := range serverPool.backends: the load of the array
\* pointer.
HealthCheckLoadPtr ==
    /\ hcpc = "range"
    /\ "ptr" \in hctodo
    /\ hcptr' = backends.ptr
    /\ hctodo' = hctodo \ {"ptr"}
    /\ hcpc' = Ranged(hctodo', hclen)
    /\ UNCHANGED <<poolVars, callVars, hclen, hcidx, hcrec, hcalive, logs, regVars, lockVars>>

\* One iteration of the loop, the element: backend := the slot at the
\* loop's position, and alive := false.  backend.URL.String() panics on a
\* nil element (a slot not yet stored) and on a wild one.
HealthCheckLoad ==
    /\ hcpc = "load"
    /\ IF hcptr = 0
         THEN /\ hcpc' = "panic"
              /\ UNCHANGED hcrec
         ELSE \E w \in Loadable(hcptr, hcidx) :
                IF w \in Records
                  THEN /\ hcrec' = w
                       /\ hcpc' = "get"
                  ELSE /\ hcpc' = "panic"
                       /\ UNCHANGED hcrec
    /\ hcalive' = FALSE
    /\ UNCHANGED <<poolVars, callVars, hctodo, hcptr, hclen, hcidx, logs, regVars, lockVars>>

\* client.Get returns (err says it failed or timed out, status is the
\* response's code) and settles the local `alive`.
HealthCheckGet(err, status) ==
    /\ hcpc = "get"
    /\ hcalive' = ProbeAlive(err, status)
    /\ hcpc' = "set"
    /\ UNCHANGED <<poolVars, callVars, hctodo, hcptr, hclen, hcidx, hcrec, logs, regVars, lockVars>>

\* backend.SetAlive(alive), which waits while the record's mutex is held.
HealthCheckSetAlive ==
    /\ hcpc = "set"
    /\ CanLock(mux[hcrec])
    /\ Alive' = SetAlive(hcrec, hcalive)
    /\ hcpc' = "log"
    /\ UNCHANGED <<memVars, made, current, callVars, hctodo, hcptr, hclen, hcidx, hcrec, hcalive, logs, regVars, lockVars>>

\* The log line "<URL> [up|down]" and the loop's advance over the slice it
\* took.
HealthCheckLog ==
    /\ hcpc = "log"
    /\ logs' = Append(logs, <<hcrec, StatusWord(hcalive)>>)
    /\ hcidx' = hcidx + 1
    /\ hcrec' = Nil
    /\ hcalive' = FALSE
    /\ hcpc' = IF hcidx + 1 < hclen THEN "load" ELSE "done"
    /\ UNCHANGED <<poolVars, callVars, hctodo, hcptr, hclen, regVars, lockVars>>

\* HealthCheck returns.
HealthCheckReturn ==
    /\ hcpc = "done"
    /\ hcpc' = "idle"
    /\ hcptr' = 0
    /\ hclen' = 0
    /\ hcidx' = 0
    /\ logs' = <<>>
    /\ UNCHANGED <<poolVars, callVars, hctodo, hcrec, hcalive, regVars, lockVars>>

\* A HealthCheck pass from its header loads to its last log line.
HealthCheckPass ==
    \/ HealthCheckLoadLen
    \/ HealthCheckLoadPtr
    \/ HealthCheckLoad
    \/ \E o \in Outcomes : HealthCheckGet(o.err, o.status)
    \/ HealthCheckSetAlive
    \/ HealthCheckLog
\* ------------------------------------------- the accessors' locking
\* Backend.SetAlive and Backend.IsAlive statement by statement, as run by
\* threads that call them directly.  A read or write of Alive that overlaps
\* another thread's write section is a data race: its value is arbitrary.

WriteSection(u) == tpc[u] \in {"write", "unlock"}
ReadSection(u) == tpc[u] \in {"read", "runlock"}

\* Thread t's access to Alive overlaps a write section of another thread on
\* the same record (for a write: or a read section).
RacesRead(t) ==
    \E u \in Threads \ {t} : tidx[u] = tidx[t] /\ WriteSection(u)
RacesWrite(t) ==
    \E u \in Threads \ {t} : tidx[u] = tidx[t] /\ (WriteSection(u) \/ ReadSection(u))

SetAliveCall(t, k, alive) ==
    /\ tpc[t] = "idle"
    /\ k \in Records /\ k < made
    /\ tpc' = [tpc EXCEPT ![t] = "lock"]
    /\ top' = [top EXCEPT ![t] = "SetAlive"]
    /\ tidx' = [tidx EXCEPT ![t] = k]
    /\ targ' = [targ EXCEPT ![t] = alive]
    /\ UNCHANGED <<poolVars, callVars, hcVars, regVars, mux, tret>>

\* backend.mux.Lock()
SetAliveLock(t) ==
    /\ tpc[t] = "lock"
    /\ CanLock(mux[tidx[t]])
    /\ mux' = [mux EXCEPT ![tidx[t]].w = TRUE]
    /\ tpc' = [tpc EXCEPT ![t] = "write"]
    /\ UNCHANGED <<poolVars, callVars, hcVars, regVars, top, tidx, targ, tret>>

\* backend.Alive = alive
SetAliveWrite(t) ==
    /\ tpc[t] = "write"
    /\ \E v \in (IF RacesWrite(t) THEN BOOLEAN ELSE {targ[t]}) :
         Alive' = SetAlive(tidx[t], v)
    /\ tpc' = [tpc EXCEPT ![t] = "unlock"]
    /\ UNCHANGED <<memVars, made, current, callVars, hcVars, regVars, mux, top, tidx, targ, tret>>

\* backend.mux.Unlock() and the return
SetAliveUnlock(t) ==
    /\ tpc[t] = "unlock"
    /\ mux' = [mux EXCEPT ![tidx[t]].w = FALSE]
    /\ tpc' = [tpc EXCEPT ![t] = "done"]
    /\ UNCHANGED <<poolVars, callVars, hcVars, regVars, top, tidx, targ, tret>>

IsAliveCall(t, k) ==
    /\ tpc[t] = "idle"
    /\ k \in Records /\ k < made
    /\ tpc' = [tpc EXCEPT ![t] = "rlock"]
    /\ top' = [top EXCEPT ![t] = "IsAlive"]
    /\ tidx' = [tidx EXCEPT ![t] = k]
    /\ UNCHANGED <<poolVars, callVars, hcVars, regVars, mux, targ, tret>>

\* backend.mux.RLock()
IsAliveRLock(t) ==
    /\ tpc[t] = "rlock"
    /\ CanRLock(mux[tidx[t]])
    /\ mux' = [mux EXCEPT ![tidx[t]].r = @ + 1]
    /\ tpc' = [tpc EXCEPT ![t] = "read"]
    /\ UNCHANGED <<poolVars, callVars, hcVars, regVars, top, tidx, targ, tret>>

\* alive := backend.Alive
IsAliveRead(t) ==
    /\ tpc[t] = "read"
    /\ \E v \in (IF RacesRead(t) THEN BOOLEAN ELSE {IsAlive(tidx[t])}) :
         tret' = [tret EXCEPT ![t] = v]
    /\ tpc' = [tpc EXCEPT ![t] = "runlock"]
    /\ UNCHANGED <<poolVars, callVars, hcVars, regVars, mux, top, tidx, targ>>

\* backend.mux.RUnlock() and return alive
IsAliveRUnlock(t) ==
    /\ tpc[t] = "runlock"
    /\ mux' = [mux EXCEPT ![tidx[t]].r = @ - 1]
    /\ tpc' = [tpc EXCEPT ![t] = "done"]
    /\ UNCHANGED <<poolVars, callVars, hcVars, regVars, top, tidx, targ, tret>>

\* The accessor has returned and the thread is free for its next call.
AccessorReturn(t) ==
    /\ tpc[t] = "done"
    /\ tpc' = [tpc EXCEPT ![t] = "idle"]
    /\ top' = [top EXCEPT ![t] = "none"]
    /\ tidx' = [tidx EXCEPT ![t] = 0]
    /\ targ' = [targ EXCEPT ![t] = FALSE]
    /\ tret' = [tret EXCEPT ![t] = FALSE]
    /\ UNCHANGED <<poolVars, callVars, hcVars, regVars, mux>>


\* ---------------------------------------------------------- observers
\* Each observer is a function of a step of the program (its state before
\* and after); the program's actions never read one.

HistLen == 2 * MaxBackends
MaxCalls == MaxCursor + 1

\* No AddBackend call is under way.
RegIdle == \A g \in Registrars : apc[g] = "idle"

\* The slice is what AddBackend calls made one after another leave: every
\* record made is in it, record k at index k.
InOrder ==
    /\ backends.len = made
    /\ made > 0 =>
         /\ backends.ptr # 0
         /\ Len(arrays[backends.ptr]) >= made
         /\ backends.cap = Len(arrays[backends.ptr])
         /\ \A k \in 0 .. made - 1 : arrays[backends.ptr][k + 1] = k

\* Registration is at rest and has left the slice in order.
Quiet == RegIdle /\ InOrder

\* The step in which caller c's call performs its atomic increment.
Incremented(c) == pc[c] = "add" /\ pc'[c] = "mod"

\* Caller c's selection call is under way.
Selecting(c) == pc[c] \notin {"idle", "respond", "done", "panic"}

\* The step in which caller c's selection call gets its result.
Selected(c) ==
    (pc[c] = "idle" \/ Selecting(c)) /\ pc'[c] \in {"respond", "done"}

\* Caller c is inside its selection call, past its increment.
InFlight(c) == Selecting(c) /\ pc[c] \notin {"test", "add"}

\* Caller c is inside GetNextPeer's loop.
InLoop(c) == pc[c] \in {"index", "header", "element", "alive"}

ObserveClaim ==
    claim' = [c \in Callers |->
                IF pc'[c] = "idle" THEN NoClaim
                ELSE IF Incremented(c) THEN current' ELSE claim[c]]

\* A call is raced when, at one of its steps, an AddBackend call is under
\* way or the slice is out of order.
ObserveRaced(W) ==
    raced' = [c \in Callers |->
                IF c \notin W \/ pc'[c] = "idle" THEN FALSE
                ELSE raced[c] \/ ~Quiet \/ ~Quiet']

ObserveRequests(answer) ==
    /\ picks' = [c \in Callers |->
                   IF pc'[c] = "idle" THEN 0
                   ELSE IF pc[c] = "idle" /\ op'[c] \in {"GetNextPeer", "Handler"}
                          THEN picks[c] + 1 ELSE picks[c]]
    /\ fwd' = [c \in Callers |->
                 IF pc'[c] = "idle" THEN <<>>
                 ELSE IF pc[c] = "respond" /\ pc'[c] = "done" /\ ret[c] # Nil
                        THEN Append(fwd[c], ret[c]) ELSE fwd[c]]
    /\ upstream' = [c \in Callers |->
                      IF pc'[c] = "idle" THEN NoReply
                      ELSE IF pc[c] = "respond" /\ pc'[c] = "done" /\ ret[c] # Nil
                             THEN answer ELSE upstream[c]]

\* The outcome of each GET of the pass, with the record probed and the flag
\* it had then; and whether the pass was raced as a call is.
ObserveProbes(outcome) ==
    /\ probes' = IF hcpc' = "idle" THEN <<>>
                 ELSE IF hcpc = "get" /\ hcpc' = "set"
                   THEN Append(probes, [err |-> outcome.err, status |-> outcome.status,
                                        rec |-> hcrec, was |-> Alive[hcrec]])
                   ELSE probes
    /\ hcraced' = IF hcpc' = "idle" THEN FALSE
                  ELSE hcraced \/ ~Quiet \/ ~Quiet'

\* The pool changes in this step: a record is made or the slice written.
PoolChanges == memVars' # memVars \/ made' # made

ObserveSequence ==
    /\ hist' = IF PoolChanges THEN <<>>
               ELSE IF Len0 > 0 /\ \E c \in Callers : Selected(c)
                 THEN LET c == CHOOSE d \in Callers : Selected(d)
                          e == [op |-> op'[c], ret |-> ret'[c], claim |-> claim'[c]]
                          h == Append(hist, e)
                      IN  IF Len(h) > HistLen THEN Tail(h) ELSE h
                 ELSE hist
    /\ runOp' = IF PoolChanges /\ ncalls > 0 THEN "mixed"
                ELSE IF Len0 > 0 /\ \E c \in Callers : Selected(c)
                  THEN LET c == CHOOSE d \in Callers : Selected(d) IN
                       IF runOp \in {"none", op'[c]} THEN op'[c] ELSE "mixed"
                  ELSE runOp
    /\ ncalls' = IF Len0 > 0 /\ (\E c \in Callers : Selected(c)) /\ ncalls < MaxCalls
                   THEN ncalls + 1 ELSE ncalls

ObserveClaims ==
    /\ dup' = (dup \/ \E c \in Callers : Incremented(c) /\ current' \in claimed)
    /\ claimed' = IF dup' THEN {}
                  ELSE IF \E c \in Callers : Incremented(c)
                    THEN claimed \cup {current'} ELSE claimed
    /\ overwritten' = (overwritten \/ \E c \in Callers : pc[c] = "store" /\ pc'[c] # "store")
    /\ wrapped' = (wrapped \/ \E c \in Callers : Incremented(c) /\ current < 0 /\ current' >= 0)

\* The records handed to the AddBackend calls that have returned, in the
\* order of their return; and whether two calls ran at the same time.
ObserveAdded ==
    /\ added' = IF \E g \in Registrars : apc[g] = "elem" /\ apc'[g] = "idle"
                  THEN Append(added, arec[CHOOSE g \in Registrars : apc[g] = "elem" /\ apc'[g] = "idle"])
                  ELSE added
    /\ overlap' = (overlap \/ \E g \in Registrars, h \in Registrars :
                                 g # h /\ apc'[g] # "idle" /\ apc'[h] # "idle")

\* The records of the pool are all alive.
EveryAlive == \A r \in Records : r < made => Alive[r]

ObserveCompleted ==
    completed' = IF /\ Len0 > 0
                    /\ EveryAlive
                    /\ \E c \in Callers : Selected(c)
                   THEN completed + 1 ELSE completed

\* The step in which caller c's loop reads the flag of the element it
\* loaded.
ScanStep(c) == pc[c] = "alive" /\ pc'[c] # "panic" /\ pc'[c] # "alive"

ObserveReads(W) ==
    reads' = [c \in Callers |->
                IF c \notin W \/ pc'[c] = "idle" THEN <<>>
                ELSE IF ScanStep(c)
                  THEN Append(reads[c], [idx |-> idx[c], rec |-> peer[c],
                                         alive |-> Alive[peer[c]]])
                  ELSE reads[c]]

ObserveSteady(W) ==
    steady' = [c \in Callers |->
                 IF c \notin W \/ pc'[c] = "idle" THEN {}
                 ELSE IF pc[c] = "idle" THEN {r \in Records : r < made}
                 ELSE {r \in steady[c] : Alive'[r] = Alive[r]}]

\* A SetAlive call on record k has been made and has not returned.
Writing(u, k) == top[u] = "SetAlive" /\ tidx[u] = k /\ tpc[u] \in {"lock", "write", "unlock"}

ObserveLock ==
    /\ lastWrite' = [k \in Records |->
                       IF k = made /\ made' > made THEN Alive'[k]
                       ELSE IF \E t \in Threads : tidx[t] = k /\ tpc[t] = "write" /\ tpc'[t] = "unlock"
                         THEN targ[CHOOSE t \in Threads : tidx[t] = k /\ tpc[t] = "write" /\ tpc'[t] = "unlock"]
                         ELSE lastWrite[k]]
    /\ seen' = [t \in Threads |->
                  IF tpc'[t] = "idle" THEN FALSE
                  ELSE IF tpc[t] = "read" /\ tpc'[t] = "runlock" THEN lastWrite[tidx[t]]
                  ELSE seen[t]]
    /\ must' = [t \in Threads |->
                  IF tpc'[t] = "idle" THEN BOOLEAN
                  ELSE IF tpc[t] = "idle" /\ tpc'[t] = "rlock"
                    THEN (IF \E u \in Threads : Writing(u, tidx'[t])
                            THEN BOOLEAN ELSE {lastWrite[tidx'[t]]})
                  ELSE IF tpc[t] \in {"rlock", "read"}
                          /\ \E u \in Threads : tpc[u] = "idle" /\ tpc'[u] = "lock"
                                                  /\ tidx'[u] = tidx[t]
                    THEN BOOLEAN
                  ELSE must[t]]

\* ------------------------------------------------------ specifications

\* A pool just created, or one long into its life.
AnyStart == Init \/ Aged

\* Caller c's call, once begun, takes its next step.
Step(c) == GetNextPeer(c)

\* No selection call or request is under way.
NoCall == \A d \in Callers : pc[d] = "idle"

\* Nothing is running: the quiescent phase in which the design has the
\* backends registered.
Apart == NoCall /\ hcpc = "idle" /\ RegIdle

\* Selection under contention: callers run NextIndex and GetNextPeer
\* concurrently while records are being registered beside them, AddBackend
\* load by load and store by store; no liveness flag is written.
SelectNext ==
    \/ \E g \in Racing, alive \in BOOLEAN : AddBackendCall(g, alive) /\ ObserveRaced(Callers)
         /\ UNCHANGED <<claim, reqObs, hcObs, seqObs, claimObs, lockObs, regObs, completed, liveObs>>
    \/ \E g \in Racing : AddBackend(g) /\ ObserveRaced(Callers)
         /\ UNCHANGED <<claim, reqObs, hcObs, seqObs, claimObs, lockObs, regObs, completed, liveObs>>
    \/ \E c \in Callers : Room(LiveCursor) /\ NextIndex(c) /\ ObserveRaced(Callers)
         /\ UNCHANGED <<claim, reqObs, hcObs, seqObs, claimObs, lockObs, regObs, completed, liveObs>>
    \/ \E c \in Callers : Room(LiveCursor) /\ GetNextPeerEnter(c, "GetNextPeer") /\ ObserveRaced(Callers)
         /\ UNCHANGED <<claim, reqObs, hcObs, seqObs, claimObs, lockObs, regObs, completed, liveObs>>
    \/ \E c \in Callers : Step(c) /\ ObserveRaced(Callers)
         /\ UNCHANGED <<claim, reqObs, hcObs, seqObs, claimObs, lockObs, regObs, completed, liveObs>>
    \/ \E c \in Callers : Return(c) /\ ObserveRaced(Callers)
         /\ UNCHANGED <<claim, reqObs, hcObs, seqObs, claimObs, lockObs, regObs, completed, liveObs>>

SelectSpec == AnyStart /\ [][SelectNext]_vars

\* Selection under contention with the values the atomic increment hands
\* out on record; records are registered while no call is under way.
ClaimNext ==
    \/ \E g \in Racing, alive \in BOOLEAN : Apart /\ AddBackendCall(g, alive) /\ ObserveClaims
         /\ UNCHANGED <<claim, raced, reqObs, hcObs, seqObs, lockObs, regObs, completed, liveObs>>
    \/ \E g \in Racing : AddBackend(g) /\ ObserveClaims
         /\ UNCHANGED <<claim, raced, reqObs, hcObs, seqObs, lockObs, regObs, completed, liveObs>>
    \/ \E c \in Callers : RegIdle /\ NextIndex(c) /\ ObserveClaims
         /\ UNCHANGED <<claim, raced, reqObs, hcObs, seqObs, lockObs, regObs, completed, liveObs>>
    \/ \E c \in Callers : RegIdle /\ GetNextPeerEnter(c, "GetNextPeer") /\ ObserveClaims
         /\ UNCHANGED <<claim, raced, reqObs, hcObs, seqObs, lockObs, regObs, completed, liveObs>>
    \/ \E c \in Callers : Step(c) /\ ObserveClaims
         /\ UNCHANGED <<claim, raced, reqObs, hcObs, seqObs, lockObs, regObs, completed, liveObs>>
    \/ \E c \in Callers : Return(c) /\ ObserveClaims
         /\ UNCHANGED <<claim, raced, reqObs, hcObs, seqObs, lockObs, regObs, completed, liveObs>>

ClaimSpec == AnyStart /\ [][ClaimNext]_vars

\* Calls made one after another by one thread of control: a call, of
\* AddBackend as of the selection operations, is made when the call before
\* it is over.  No liveness flag is written.
SeqNext ==
    \/ \E g \in Racing, alive \in BOOLEAN : Apart /\ AddBackendCall(g, alive) /\ ObserveClaim /\ ObserveSequence
         /\ UNCHANGED <<raced, reqObs, hcObs, claimObs, lockObs, regObs, completed, liveObs>>
    \/ \E g \in Racing : AddBackend(g) /\ ObserveClaim /\ ObserveSequence
         /\ UNCHANGED <<raced, reqObs, hcObs, claimObs, lockObs, regObs, completed, liveObs>>
    \/ \E c \in Callers : NoCall /\ RegIdle /\ NextIndex(c) /\ ObserveClaim /\ ObserveSequence
         /\ UNCHANGED <<raced, reqObs, hcObs, claimObs, lockObs, regObs, completed, liveObs>>
    \/ \E c \in Callers : NoCall /\ RegIdle /\ GetNextPeerEnter(c, "GetNextPeer") /\ ObserveClaim /\ ObserveSequence
         /\ UNCHANGED <<raced, reqObs, hcObs, claimObs, lockObs, regObs, completed, liveObs>>
    \/ \E c \in Callers : Step(c) /\ ObserveClaim /\ ObserveSequence
         /\ UNCHANGED <<raced, reqObs, hcObs, claimObs, lockObs, regObs, completed, liveObs>>
    \/ \E c \in Callers : Return(c) /\ ObserveClaim /\ ObserveSequence
         /\ UNCHANGED <<raced, reqObs, hcObs, claimObs, lockObs, regObs, completed, liveObs>>

SeqSpec == AnyStart /\ [][SeqNext]_vars

\* The health checker: passes one after another, records being registered
\* beside them.
HealthNext ==
    \/ \E g \in Racing, alive \in BOOLEAN : AddBackendCall(g, alive) /\ ObserveProbes(CHOOSE o \in Outcomes : TRUE)
         /\ UNCHANGED <<claim, raced, reqObs, seqObs, claimObs, lockObs, regObs, completed, liveObs>>
    \/ \E g \in Racing : AddBackend(g) /\ ObserveProbes(CHOOSE o \in Outcomes : TRUE)
         /\ UNCHANGED <<claim, raced, reqObs, seqObs, claimObs, lockObs, regObs, completed, liveObs>>
    \/ HealthCheckStart /\ ObserveProbes(CHOOSE o \in Outcomes : TRUE)
         /\ UNCHANGED <<claim, raced, reqObs, seqObs, claimObs, lockObs, regObs, completed, liveObs>>
    \/ HealthCheckLoadLen /\ ObserveProbes(CHOOSE o \in Outcomes : TRUE)
         /\ UNCHANGED <<claim, raced, reqObs, seqObs, claimObs, lockObs, regObs, completed, liveObs>>
    \/ HealthCheckLoadPtr /\ ObserveProbes(CHOOSE o \in Outcomes : TRUE)
         /\ UNCHANGED <<claim, raced, reqObs, seqObs, claimObs, lockObs, regObs, completed, liveObs>>
    \/ HealthCheckLoad /\ ObserveProbes(CHOOSE o \in Outcomes : TRUE)
         /\ UNCHANGED <<claim, raced, reqObs, seqObs, claimObs, lockObs, regObs, completed, liveObs>>
    \/ \E o \in Outcomes : HealthCheckGet(o.err, o.status) /\ ObserveProbes(o)
         /\ UNCHANGED <<claim, raced, reqObs, seqObs, claimObs, lockObs, regObs, completed, liveObs>>
    \/ HealthCheckSetAlive /\ ObserveProbes(CHOOSE o \in Outcomes : TRUE)
         /\ UNCHANGED <<claim, raced, reqObs, seqObs, claimObs, lockObs, regObs, completed, liveObs>>
    \/ HealthCheckLog /\ ObserveProbes(CHOOSE o \in Outcomes : TRUE)
         /\ UNCHANGED <<claim, raced, reqObs, seqObs, claimObs, lockObs, regObs, completed, liveObs>>
    \/ HealthCheckReturn /\ ObserveProbes(CHOOSE o \in Outcomes : TRUE)
         /\ UNCHANGED <<claim, raced, reqObs, seqObs, claimObs, lockObs, regObs, completed, liveObs>>

HealthSpec == Init /\ [][HealthNext]_vars

\* The dispatcher serving concurrent requests, records being registered
\* beside them.
DispatchNext ==
    \/ \E g \in Racing, alive \in BOOLEAN : AddBackendCall(g, alive) /\ ObserveRequests(NoReply) /\ ObserveRaced(Callers)
         /\ UNCHANGED <<claim, hcObs, seqObs, claimObs, lockObs, regObs, completed, liveObs>>
    \/ \E g \in Racing : AddBackend(g) /\ ObserveRequests(NoReply) /\ ObserveRaced(Callers)
         /\ UNCHANGED <<claim, hcObs, seqObs, claimObs, lockObs, regObs, completed, liveObs>>
    \/ \E c \in Callers : GetNextPeerEnter(c, "Handler") /\ ObserveRequests(NoReply) /\ ObserveRaced(Callers)
         /\ UNCHANGED <<claim, hcObs, seqObs, claimObs, lockObs, regObs, completed, liveObs>>
    \/ \E c \in Callers : Step(c) /\ ObserveRequests(NoReply) /\ ObserveRaced(Callers)
         /\ UNCHANGED <<claim, hcObs, seqObs, claimObs, lockObs, regObs, completed, liveObs>>
    \/ \E c \in Callers, status \in Replies :
         HandlerRespond(c, status) /\ ObserveRequests([status |-> status, body |-> BodyOf(ret[c])]) /\ ObserveRaced(Callers)
         /\ UNCHANGED <<claim, hcObs, seqObs, claimObs, lockObs, regObs, completed, liveObs>>
    \/ \E c \in Callers : Return(c) /\ ObserveRequests(NoReply) /\ ObserveRaced(Callers)
         /\ UNCHANGED <<claim, hcObs, seqObs, claimObs, lockObs, regObs, completed, liveObs>>

DispatchSpec == Init /\ [][DispatchNext]_vars

\* The whole pool at work: a caller of NextIndex and GetNextPeer and of
\* requests through LoadBalancerHandler, the health checker and registration,
\* all concurrently.
PoolNext ==
    \/ \E g \in Racing, alive \in BOOLEAN : AddBackendCall(g, alive) /\ UNCHANGED obsVars
    \/ \E g \in Racing : AddBackend(g) /\ UNCHANGED obsVars
    \/ \E c \in Watched : Room(LiveCursor) /\ NextIndex(c) /\ UNCHANGED obsVars
    \/ \E c \in Watched : Room(LiveCursor) /\ GetNextPeerEnter(c, "GetNextPeer") /\ UNCHANGED obsVars
    \/ \E c \in Watched : Room(LiveCursor) /\ GetNextPeerEnter(c, "Handler") /\ UNCHANGED obsVars
    \/ \E c \in Callers : Step(c) /\ UNCHANGED obsVars
    \/ \E c \in Callers, status \in Replies : HandlerRespond(c, status) /\ UNCHANGED obsVars
    \/ \E c \in Callers : Return(c) /\ UNCHANGED obsVars
    \/ HealthCheckStart /\ UNCHANGED obsVars
    \/ HealthCheckPass /\ UNCHANGED obsVars
    \/ HealthCheckReturn /\ UNCHANGED obsVars

PoolSpec == Init /\ [][PoolNext]_vars

\* Registration by threads that may call AddBackend at the same time, with
\* sequential selection calls between the registrations so that records
\* are added at every value of the cursor.
RegisterNext ==
    \/ \E g \in Registrars, alive \in BOOLEAN : NoCall /\ AddBackendCall(g, alive) /\ ObserveAdded
         /\ UNCHANGED <<claim, raced, reqObs, hcObs, seqObs, claimObs, lockObs, completed, liveObs>>
    \/ \E g \in Registrars : AddBackend(g) /\ ObserveAdded
         /\ UNCHANGED <<claim, raced, reqObs, hcObs, seqObs, claimObs, lockObs, completed, liveObs>>
    \/ \E c \in Callers : NoCall /\ RegIdle /\ NextIndex(c) /\ UNCHANGED obsVars
    \/ \E c \in Callers : NoCall /\ RegIdle /\ GetNextPeerEnter(c, "GetNextPeer") /\ UNCHANGED obsVars
    \/ \E c \in Callers : Step(c) /\ UNCHANGED obsVars
    \/ \E c \in Callers : Return(c) /\ UNCHANGED obsVars

RegisterSpec == Init /\ [][RegisterNext]_vars

\* Selection while the health checker rewrites the flags: GetNextPeer
\* callers and HealthCheck passes run concurrently, with the calls of the
\* callers in Watched followed read by read; records are registered while
\* nothing else is running.
LiveNext ==
    \/ \E g \in Racing, alive \in BOOLEAN : Apart /\ AddBackendCall(g, alive) /\ ObserveReads(Watched) /\ ObserveSteady(Watched)
         /\ UNCHANGED <<claim, raced, reqObs, hcObs, seqObs, claimObs, lockObs, regObs, completed>>
    \/ \E g \in Racing : AddBackend(g) /\ ObserveReads(Watched) /\ ObserveSteady(Watched)
         /\ UNCHANGED <<claim, raced, reqObs, hcObs, seqObs, claimObs, lockObs, regObs, completed>>
    \/ \E c \in Watched : RegIdle /\ Room(LiveCursor) /\ GetNextPeerEnter(c, "GetNextPeer") /\ ObserveReads(Watched) /\ ObserveSteady(Watched)
         /\ UNCHANGED <<claim, raced, reqObs, hcObs, seqObs, claimObs, lockObs, regObs, completed>>
    \/ \E c \in Callers \ Watched : RegIdle /\ Room(LiveCursor) /\ NextIndex(c) /\ ObserveReads(Watched) /\ ObserveSteady(Watched)
         /\ UNCHANGED <<claim, raced, reqObs, hcObs, seqObs, claimObs, lockObs, regObs, completed>>
    \/ \E c \in Callers : Step(c) /\ ObserveReads(Watched) /\ ObserveSteady(Watched)
         /\ UNCHANGED <<claim, raced, reqObs, hcObs, seqObs, claimObs, lockObs, regObs, completed>>
    \/ \E c \in Callers : Return(c) /\ ObserveReads(Watched) /\ ObserveSteady(Watched)
         /\ UNCHANGED <<claim, raced, reqObs, hcObs, seqObs, claimObs, lockObs, regObs, completed>>
    \/ RegIdle /\ HealthCheckStart /\ ObserveReads(Watched) /\ ObserveSteady(Watched)
         /\ UNCHANGED <<claim, raced, reqObs, hcObs, seqObs, claimObs, lockObs, regObs, completed>>
    \/ HealthCheckPass /\ ObserveReads(Watched) /\ ObserveSteady(Watched)
         /\ UNCHANGED <<claim, raced, reqObs, hcObs, seqObs, claimObs, lockObs, regObs, completed>>
    \/ HealthCheckReturn /\ ObserveReads(Watched) /\ ObserveSteady(Watched)
         /\ UNCHANGED <<claim, raced, reqObs, hcObs, seqObs, claimObs, lockObs, regObs, completed>>

LiveSpec == Init /\ [][LiveNext]_vars

\* Selection under contention with the completed calls counted; records
\* are registered while no call is under way.
CountNext ==
    \/ \E g \in Racing, alive \in BOOLEAN : Apart /\ AddBackendCall(g, alive) /\ ObserveCompleted
         /\ UNCHANGED <<claim, raced, reqObs, hcObs, seqObs, claimObs, lockObs, regObs, liveObs>>
    \/ \E g \in Racing : AddBackend(g) /\ ObserveCompleted
         /\ UNCHANGED <<claim, raced, reqObs, hcObs, seqObs, claimObs, lockObs, regObs, liveObs>>
    \/ \E c \in Callers : RegIdle /\ NextIndex(c) /\ ObserveCompleted
         /\ UNCHANGED <<claim, raced, reqObs, hcObs, seqObs, claimObs, lockObs, regObs, liveObs>>
    \/ \E c \in Callers : RegIdle /\ GetNextPeerEnter(c, "GetNextPeer") /\ ObserveCompleted
         /\ UNCHANGED <<claim, raced, reqObs, hcObs, seqObs, claimObs, lockObs, regObs, liveObs>>
    \/ \E c \in Callers : Step(c) /\ ObserveCompleted
         /\ UNCHANGED <<claim, raced, reqObs, hcObs, seqObs, claimObs, lockObs, regObs, liveObs>>
    \/ \E c \in Callers : Return(c) /\ ObserveCompleted
         /\ UNCHANGED <<claim, raced, reqObs, hcObs, seqObs, claimObs, lockObs, regObs, liveObs>>

CountSpec == AnyStart /\ [][CountNext]_vars

\* GetNextPeer under contention for ever: callers keep calling GetNextPeer
\* concurrently, no flag is written, a call that has started goes on to its
\* return and new calls keep being made; records are registered while no
\* call is under way.
FairNext ==
    \/ \E g \in Racing, alive \in BOOLEAN : Apart /\ AddBackendCall(g, alive) /\ UNCHANGED obsVars
    \/ \E g \in Racing : AddBackend(g) /\ UNCHANGED obsVars
    \/ \E c \in Callers : RegIdle /\ GetNextPeerEnter(c, "GetNextPeer") /\ UNCHANGED obsVars
    \/ \E c \in Callers : Step(c) /\ UNCHANGED obsVars
    \/ \E c \in Callers : Return(c) /\ UNCHANGED obsVars

\* Caller c's call, once started, takes its next step.
Continue(c) == (Step(c) \/ Return(c)) /\ UNCHANGED obsVars

\* Some caller starts a call.
Begin == \E c \in Callers : RegIdle /\ GetNextPeerEnter(c, "GetNextPeer") /\ UNCHANGED obsVars

\* An AddBackend call, once made, runs on to its return.
Registering == \E g \in Racing : AddBackend(g) /\ UNCHANGED obsVars

FairSpec ==
    /\ Init /\ [][FairNext]_vars
    /\ \A c \in Callers : WF_vars(Continue(c))
    /\ WF_vars(Begin)
    /\ WF_vars(Registering)

\* One backend record and the threads that call its accessors concurrently.
BackendNext ==
    \/ \E g \in Racing, alive \in BOOLEAN : made = 0 /\ AddBackendCall(g, alive) /\ ObserveLock
         /\ UNCHANGED <<claim, raced, reqObs, hcObs, seqObs, claimObs, regObs, completed, liveObs>>
    \/ \E g \in Racing : AddBackend(g) /\ ObserveLock
         /\ UNCHANGED <<claim, raced, reqObs, hcObs, seqObs, claimObs, regObs, completed, liveObs>>
    \/ \E t \in Threads, k \in Records, alive \in BOOLEAN :
         SetAliveCall(t, k, alive) /\ ObserveLock
         /\ UNCHANGED <<claim, raced, reqObs, hcObs, seqObs, claimObs, regObs, completed, liveObs>>
    \/ \E t \in Threads : SetAliveLock(t) /\ ObserveLock
         /\ UNCHANGED <<claim, raced, reqObs, hcObs, seqObs, claimObs, regObs, completed, liveObs>>
    \/ \E t \in Threads : SetAliveWrite(t) /\ ObserveLock
         /\ UNCHANGED <<claim, raced, reqObs, hcObs, seqObs, claimObs, regObs, completed, liveObs>>
    \/ \E t \in Threads : SetAliveUnlock(t) /\ ObserveLock
         /\ UNCHANGED <<claim, raced, reqObs, hcObs, seqObs, claimObs, regObs, completed, liveObs>>
    \/ \E t \in Threads, k \in Records : IsAliveCall(t, k) /\ ObserveLock
         /\ UNCHANGED <<claim, raced, reqObs, hcObs, seqObs, claimObs, regObs, completed, liveObs>>
    \/ \E t \in Threads : IsAliveRLock(t) /\ ObserveLock
         /\ UNCHANGED <<claim, raced, reqObs, hcObs, seqObs, claimObs, regObs, completed, liveObs>>
    \/ \E t \in Threads : IsAliveRead(t) /\ ObserveLock
         /\ UNCHANGED <<claim, raced, reqObs, hcObs, seqObs, claimObs, regObs, completed, liveObs>>
    \/ \E t \in Threads : IsAliveRUnlock(t) /\ ObserveLock
         /\ UNCHANGED <<claim, raced, reqObs, hcObs, seqObs, claimObs, regObs, completed, liveObs>>
    \/ \E t \in Threads : AccessorReturn(t) /\ ObserveLock
         /\ UNCHANGED <<claim, raced, reqObs, hcObs, seqObs, claimObs, regObs, completed, liveObs>>

BackendSpec == Init /\ [][BackendNext]_vars
\* -------------------------------------------------------------- claims

\* The Alive field of the record at index k of a slice in order.
Flag(k) == Alive[k]
Live == {k \in Records : k < made /\ Flag(k)}
AllAlive == \A k \in Records : k < made => Flag(k)
AllDead == \A k \in Records : k < made => ~Flag(k)

\* 2^e modulo n, by doubling.
RECURSIVE PowerOfTwoMod(_, _)
PowerOfTwoMod(e, n) == IF e = 0 THEN 1 % n ELSE (2 * PowerOfTwoMod(e - 1, n)) % n

\* The uint64 that the cursor value v stands for, modulo n.
Residue(v, n) == IF v >= 0 THEN v % n ELSE (PowerOfTwoMod(64, n) + (v % n)) % n

\* Caller c's GetNextPeer call has returned and c has not yet gone on.
PeerDone(c) == pc[c] = "done" /\ op[c] = "GetNextPeer"

\* The health checker is inside its loop.
HcRunning == hcpc \in {"load", "get", "set", "log"}

\* ---- selection (SelectSpec)

\* C1: a GetNextPeer call during which no liveness flag changed, on a pool
\* registered before the call, returned nil if and only if the pool is empty
\* or every backend's flag is false.
C1_NilIffNoLiveBackend ==
    \A c \in Callers :
        PeerDone(c) /\ ~raced[c] => (ret[c] = Nil <=> (Len0 = 0 \/ AllDead))

\* A call returned nil on a full pool of dead backends while the other
\* caller was inside its own scan.
C1_Witness ==
    \E c \in Callers, d \in Callers :
        /\ PeerDone(c) /\ ret[c] = Nil /\ ~raced[c]
        /\ Len0 = MaxBackends /\ AllDead
        /\ InLoop(d)

\* C2: with the liveness flags fixed, whatever GetNextPeer returns on a pool
\* registered before the call is a backend of the pool whose flag is true.
C2_NeverReturnsDead ==
    \A c \in Callers :
        PeerDone(c) /\ ~raced[c] /\ ret[c] # Nil =>
            (ret[c] \in 0 .. Len0 - 1 /\ Flag(ret[c]))

\* A call that started on a dead backend returned a later, alive one.
C2_Witness ==
    \E c \in Callers :
        /\ PeerDone(c) /\ ~raced[c] /\ ret[c] # Nil
        /\ ~Flag(next[c])
        /\ ret[c] # next[c]

\* C3: in a pool where exactly one backend is alive, every GetNextPeer call
\* made on the pool as it is returns that backend.
C3_OnlyLiveBackendReturned ==
    \A c \in Callers :
        PeerDone(c) /\ ~raced[c] /\ Cardinality(Live) = 1 => ret[c] \in Live

\* The one alive backend of a full pool was returned by a call whose scan
\* had to wrap round the end of the pool to find it.
C3_Witness ==
    \E c \in Callers :
        /\ PeerDone(c) /\ ~raced[c] /\ Len0 = MaxBackends /\ Cardinality(Live) = 1
        /\ ret[c] \in Live
        /\ ret[c] < next[c]

\* C9: on a non-empty pool whose backends are all alive, no GetNextPeer call
\* made on the pool as it is returns nil, however the callers interleave.
C9_AllAliveNeverNil ==
    \A c \in Callers :
        PeerDone(c) /\ ~raced[c] /\ Len0 > 0 /\ AllAlive => ret[c] # Nil

\* Two calls overlapped: one has its backend while the other is still inside
\* its scan, and the cursor shows that the finished call claimed last.
C9_Witness ==
    \E c \in Callers, d \in Callers :
        /\ Len0 = MaxBackends /\ AllAlive
        /\ PeerDone(c) /\ ~raced[c] /\ ret[c] # Nil
        /\ InLoop(d) /\ next[d] # next[c]
        /\ Residue(current, Len0) = next[c]

\* C12: a call made on an empty pool returns at once, NextIndex with 0 and
\* GetNextPeer with nil, and leaves the cursor as it was.
C12_EmptyPoolCalls ==
    [][Len0 = 0 =>
          \A c \in Callers :
              pc[c] = "idle" /\ pc'[c] # "idle" =>
                  /\ current' = current
                  /\ pc'[c] = "done"
                  /\ \/ op'[c] = "NextIndex" /\ ret'[c] = 0
                     \/ op'[c] = "GetNextPeer" /\ ret'[c] = Nil]_vars

\* Both calls have returned on the empty pool and the cursor is untouched.
C12_Witness ==
    /\ Len0 = 0 /\ current = 0
    /\ \E c \in Callers, d \in Callers :
         /\ pc[c] = "done" /\ op[c] = "NextIndex" /\ ret[c] = 0
         /\ pc[d] = "done" /\ op[d] = "GetNextPeer" /\ ret[d] = Nil

\* ---- the values the increment hands out (ClaimSpec)

\* C10 as stated: no two calls obtain the same value from the atomic
\* increment.
C10_ClaimsDistinct == ~dup

\* C10 as amended: two calls obtain the same value only after a GetNextPeer
\* call has overwritten the cursor or the counter has wrapped round.
C10_DistinctUntilOverwriteOrWrap == dup => (overwritten \/ wrapped)

\* Every caller is inside a scan on its own claim, after several increments
\* and in a pool with a dead backend, and no value has been handed out twice.
C10_Witness ==
    /\ ~dup /\ ~overwritten /\ ~wrapped
    /\ Cardinality(claimed) >= 3
    /\ Len0 > 0 /\ ~AllAlive
    /\ \A c \in Callers : InLoop(c)

\* ---- calls made one after another (SeqSpec)

\* The latest n completed calls on the present pool were all calls of o.
LastAre(o, n) ==
    /\ n >= 1 /\ Len(hist) >= n
    /\ \A j \in Len(hist) - n + 1 .. Len(hist) : hist[j].op = o

\* Within the latest n calls the counter wrapped round (an increment after
\* the first of them returned 0).
WrapInLast(n) == \E j \in Len(hist) - n + 2 .. Len(hist) : hist[j].claim = 0

\* How many of the latest n calls returned b.
TimesInLast(b, n) ==
    Cardinality({j \in Len(hist) - n + 1 .. Len(hist) : hist[j].ret = b})

\* The latest completed call.
Latest == hist[Len(hist)]

\* The calls made on the pool since its creation, all of operation o, return
\* 1, 2, ... modulo the length, up to the first m calls.
FreshRun(o, m) ==
    runOp = o /\ ncalls >= 1 /\ ncalls < m => Latest.ret = ncalls % Len0

\* C4 as stated: with all backends alive and sequential calls, any k*N
\* consecutive GetNextPeer calls return each backend exactly k times, and
\* the i-th call on a fresh pool returns index (i+1) mod N.
C4_RoundRobinCoverage ==
    AllAlive =>
      /\ \A k \in 1 .. 2 :
           LastAre("GetNextPeer", k * Len0) =>
             \A b \in 0 .. Len0 - 1 : TimesInLast(b, k * Len0) = k
      /\ FreshRun("GetNextPeer", MaxCalls)

\* C4 as amended: the same as long as the counter does not wrap round
\* within the calls counted.
C4_RoundRobinCoverageUntilWrap ==
    AllAlive =>
      /\ \A k \in 1 .. 2 :
           LastAre("GetNextPeer", k * Len0) /\ ~WrapInLast(k * Len0) =>
             \A b \in 0 .. Len0 - 1 : TimesInLast(b, k * Len0) = k
      /\ FreshRun("GetNextPeer", MaxCalls)

\* Two full rounds of GetNextPeer on a fresh pool of three alive backends:
\* six calls, which returned 1, 2, 0, 1, 2, 0.
C4_Witness ==
    /\ Len0 = MaxBackends /\ AllAlive
    /\ runOp = "GetNextPeer" /\ ncalls = 2 * Len0
    /\ LastAre("GetNextPeer", 2 * Len0) /\ ~WrapInLast(2 * Len0)
    /\ \A j \in 1 .. 2 * Len0 : hist[j].ret = j % Len0

\* C5 as stated: whatever the cursor holds, each NextIndex result is the
\* previous one plus one modulo N, N consecutive results are pairwise
\* distinct, and a fresh pool of 3 yields 1, 2, 0, ...
C5_NextIndexCyclic ==
    /\ \A j \in 1 .. Len(hist) - 1 :
         hist[j].op = "NextIndex" /\ hist[j + 1].op = "NextIndex" =>
           hist[j + 1].ret = (hist[j].ret + 1) % Len0
    /\ LastAre("NextIndex", Len0) =>
         \A b \in 0 .. Len0 - 1 : TimesInLast(b, Len0) = 1
    /\ FreshRun("NextIndex", MaxCalls)

\* C5 as amended: the same for calls whose increment does not wrap the
\* counter round; the call whose increment wraps it returns 0.
C5_NextIndexCyclicUntilWrap ==
    /\ \A j \in 1 .. Len(hist) - 1 :
         hist[j].op = "NextIndex" /\ hist[j + 1].op = "NextIndex" =>
           IF hist[j + 1].claim # 0
             THEN hist[j + 1].ret = (hist[j].ret + 1) % Len0
             ELSE hist[j + 1].ret = 0
    /\ LastAre("NextIndex", Len0) /\ ~WrapInLast(Len0) =>
         \A b \in 0 .. Len0 - 1 : TimesInLast(b, Len0) = 1
    /\ FreshRun("NextIndex", MaxCalls)

\* A full pool on which the latest N calls were NextIndex calls with no wrap
\* among them, starting from a cursor that an overwrite had set.
C5_Witness ==
    /\ Len0 = MaxBackends
    /\ LastAre("NextIndex", Len0) /\ ~WrapInLast(Len0)
    /\ \A b \in 0 .. Len0 - 1 : TimesInLast(b, Len0) = 1
    /\ Len(hist) > Len0 /\ hist[Len(hist) - Len0].op = "GetNextPeer"

\* Six NextIndex calls on a fresh pool of three returned 1, 2, 0, 1, 2, 0.
C5_WitnessFresh ==
    /\ Len0 = MaxBackends
    /\ runOp = "NextIndex" /\ ncalls = 2 * Len0
    /\ \A j \in 1 .. 2 * Len0 : hist[j].ret = j % Len0 /\ hist[j].claim = j

\* C15: the increment of a call takes the cursor from c to c + 1 (in the
\* counter's arithmetic), and a GetNextPeer call made alone on a non-empty
\* pool starts at (c + 1) mod N; when it returns, the cursor is still c + 1
\* if the backend at the start index is alive or no backend is alive, and is
\* the index of the returned backend if that differs from the start index.
C15_CursorEffect ==
    /\ [](\A c \in Callers :
            PeerDone(c) /\ Len0 > 0 =>
                /\ next[c] = Residue(claim[c], Len0)
                /\ Flag(next[c]) \/ Live = {} => current = claim[c]
                /\ ret[c] # Nil /\ ret[c] # next[c] => current = ret[c])
    /\ [][\A c \in Callers :
            Incremented(c) => claim'[c] = current + 1]_vars

\* A call was started at a dead backend by an increment to the top of the
\* counter's range, 2^64 - 1, and has overwritten the cursor with the index
\* it returned.
C15_Witness ==
    \E c \in Callers :
        /\ PeerDone(c) /\ claim[c] = 0 - 1
        /\ ret[c] # Nil /\ ret[c] # next[c]
        /\ current = ret[c] /\ current # claim[c]

\* The first alive backend cyclically after index b.
NextAliveAfter(b) ==
    CHOOSE a \in Live :
        \A e \in Live : (a + Len0 - b - 1) % Len0 <= (e + Len0 - b - 1) % Len0

\* No call is between its increment and its return.
NoneInFlight == \A c \in Callers : pc[c] \in {"idle", "done"}

\* C19: with fixed liveness, a live backend and sequential calls: once a
\* GetNextPeer call has returned, the cursor is congruent modulo N to the
\* index it returned; a GetNextPeer call that follows one returns the first
\* alive backend cyclically after the one returned before, unless its
\* increment wrapped the counter; and A consecutive GetNextPeer calls with
\* no wrap among them return each of the A alive backends once.
C19_RoundRobinOverAlive ==
    Live # {} =>
      /\ Len(hist) >= 1 /\ Latest.op = "GetNextPeer" /\ NoneInFlight =>
           Residue(current, Len0) = Latest.ret
      /\ \A j \in 1 .. Len(hist) - 1 :
           hist[j].op = "GetNextPeer" /\ hist[j + 1].op = "GetNextPeer"
             /\ hist[j + 1].claim # 0 =>
               hist[j + 1].ret = NextAliveAfter(hist[j].ret)
      /\ LET A == Cardinality(Live) IN
           LastAre("GetNextPeer", A) /\ ~WrapInLast(A) =>
             \A b \in Live : TimesInLast(b, A) = 1

\* On a full pool with one dead backend, the latest rounds of GetNextPeer
\* calls, with no wrap among them, went round the alive backends, skipping
\* the dead one.
C19_Witness ==
    /\ Len0 = MaxBackends /\ Cardinality(Live) = Len0 - 1
    /\ Len(hist) >= 2 * Cardinality(Live)
    /\ LastAre("GetNextPeer", 2 * Cardinality(Live))
    /\ ~WrapInLast(2 * Cardinality(Live))
    /\ \A b \in Live : TimesInLast(b, 2 * Cardinality(Live)) = 2
    /\ \E j \in 1 .. Len(hist) : hist[j].ret # Residue(hist[j].claim, Len0)

\* ---- the accessors (BackendSpec)

\* C6: every IsAlive call returns the value of the latest SetAlive that took
\* effect before the read did (the record's initial value if none), and a
\* read called when no SetAlive was running, with none called before the
\* read took effect, returns the value of the last SetAlive that returned.
C6_LivenessLinearizable ==
    \A t \in Threads :
        top[t] = "IsAlive" /\ tpc[t] \in {"runlock", "done"} =>
            (tret[t] = seen[t] /\ tret[t] \in must[t])

\* A read returned the value a completed SetAlive wrote, while a second
\* writer with the opposite value waits for the mutex the reader still holds.
C6_Witness ==
    \E t \in Threads, u \in Threads, w \in Threads :
        /\ top[t] = "IsAlive" /\ tpc[t] = "runlock" /\ must[t] = {tret[t]}
        /\ top[w] = "SetAlive" /\ tpc[w] = "done" /\ targ[w] = tret[t]
        /\ top[u] = "SetAlive" /\ tpc[u] = "lock" /\ targ[u] # tret[t]

\* ---- the health checker (HealthSpec)

ProbeUp(o) == (~o.err) /\ o.status \in 200 .. 299

\* C7: when a HealthCheck pass over the registered backends is over (no
\* registration having run beside it), every backend has been probed once,
\* its flag is true exactly when its probe got a response with a status in
\* 200..299 (false on an error, a timeout or any other status), whatever the
\* flag was before, and the pass has logged one line per backend, in order,
\* saying [up] or [down] as the flag it wrote.
C7_HealthCheckSetsProbeOutcome ==
    hcpc = "done" /\ ~hcraced =>
        /\ Len(probes) = Len0
        /\ Len(logs) = Len0
        /\ \A k \in 1 .. Len0 :
             /\ probes[k].rec = k - 1
             /\ Flag(k - 1) = ProbeUp(probes[k])
             /\ logs[k] = <<k - 1, IF Flag(k - 1) THEN "up" ELSE "down">>

\* A finished pass turned a dead backend up on a 299, a live one down on a
\* 300 and a live one down on a failed request.
C7_Witness ==
    /\ hcpc = "done" /\ ~hcraced
    /\ \E j \in 1 .. Len0, k \in 1 .. Len0, l \in 1 .. Len0 :
         /\ ~probes[j].was /\ ~probes[j].err /\ probes[j].status = 299 /\ Flag(j - 1)
         /\ probes[k].was /\ ~probes[k].err /\ probes[k].status = 300 /\ ~Flag(k - 1)
         /\ probes[l].was /\ probes[l].err /\ ~Flag(l - 1)

\* ---- the dispatcher (DispatchSpec)

HandlerDone(c) == pc[c] = "done" /\ op[c] = "Handler"

\* C8: a request that has been answered called GetNextPeer once; when the
\* call gave no backend (which, on a pool registered before the request, is
\* when the pool is empty or has no live backend) the answer is 503 "Service
\* not available" and nothing was forwarded; when it gave a backend the
\* request was forwarded once, to that backend, and the answer is that
\* backend's status and body.  Before the answer nothing has been forwarded.
C8_DispatchOnceOrUnavailable ==
    \A c \in Callers :
        /\ pc[c] = "respond" => picks[c] = 1 /\ fwd[c] = <<>>
        /\ HandlerDone(c) =>
             /\ picks[c] = 1
             /\ ~raced[c] => (ret[c] = Nil <=> Live = {})
             /\ ret[c] = Nil => reply[c] = Unavailable /\ fwd[c] = <<>>
             /\ ret[c] # Nil => fwd[c] = <<ret[c]>> /\ reply[c] = upstream[c]
                                  /\ upstream[c].body = BodyOf(ret[c])

\* One request was forwarded, past a dead backend, to an upstream that
\* answered 503 itself, while another request holds a different backend.
C8_Witness ==
    \E c \in Callers, d \in Callers :
        /\ HandlerDone(c) /\ ~raced[c] /\ ret[c] # Nil /\ ret[c] # next[c]
        /\ reply[c].status = 503 /\ reply[c] # Unavailable
        /\ pc[d] = "respond" /\ ret[d] # Nil /\ ret[d] # ret[c]

\* Requests are answered 503 without forwarding on a pool whose backends
\* are all dead.
C8_WitnessUnavailable ==
    \E c \in Callers :
        HandlerDone(c) /\ ~raced[c] /\ Len0 > 0 /\ ret[c] = Nil /\ reply[c] = Unavailable

\* ---- the cursor's and the flags' writers (PoolSpec)

\* Caller c's call makes its atomic increment in this step.
IncrementBy(c) ==
    pc[c] = "add" /\ pc'[c] = "mod" /\ current' = current + 1

\* Caller c's GetNextPeer overwrites the cursor in this step with the index
\* of the backend it found alive past its start index.
OverwriteBy(c) ==
    /\ pc[c] = "store" /\ pc'[c] # "store"
    /\ i[c] # next[c]
    /\ current' = idx[c]

\* C11 as stated: every change of the cursor is the atomic increment by one
\* of a NextIndex call; nothing else changes it.
C11_NextIndexSoleMutator ==
    [][current' # current => \E c \in Callers : IncrementBy(c)]_vars

\* C11 amended: every change of the cursor is either the atomic increment by
\* one of a NextIndex call (direct or inside GetNextPeer) or GetNextPeer's
\* overwrite with the index of the alive backend it returns; the health
\* checker, the flag accessors, registration and the dispatcher's answer
\* never change it.
C11_CursorMutators ==
    [][current' # current =>
          \E c \in Callers : IncrementBy(c) \/ OverwriteBy(c)]_vars

\* A call that skipped a dead backend has left the index of the backend it
\* returned in the cursor, during a health-check pass.
C11_Witness ==
    \E c \in Callers :
        /\ pc[c] = "done" /\ op[c] = "GetNextPeer"
        /\ ret[c] # Nil /\ ret[c] # next[c] /\ current = ret[c]
        /\ HcRunning

\* C17: a step changes liveness flags only if it is the health checker's
\* SetAlive, which then changes the flag of the one backend being probed
\* (the making of a record to register sets that record's flag and changes
\* no other); every step of NextIndex, GetNextPeer, LoadBalancerHandler and
\* AddBackend leaves all flags as they are.
C17_OnlyHealthCheckWritesFlags ==
    [][/\ Alive' # Alive =>
            \/ /\ hcpc = "set" /\ hcpc' = "log"
               /\ made' = made
               /\ \A r \in Records : r # hcrec => Alive'[r] = Alive[r]
            \/ /\ made' = made + 1
               /\ \A r \in Records : r # made => Alive'[r] = Alive[r]
       /\ (\E c \in Callers : pc'[c] # pc[c]) => Alive' = Alive
       /\ (\E g \in Registrars : apc[g] # "idle" /\ apc'[g] # apc[g]) => Alive' = Alive]_vars

\* During a health-check pass that has already logged a backend down, a
\* request holds a backend it reached past that dead one.
C17_Witness ==
    /\ HcRunning /\ hcidx > 0
    /\ \E c \in Callers :
         /\ pc[c] = "respond" /\ ret[c] \in Records /\ ret[c] # next[c]
         /\ ~Flag(next[c])
         /\ \E j \in 1 .. Len(logs) : logs[j] = <<next[c], "down">>

\* ---- registration (RegisterSpec)

\* The element at index k of the slice, as indexing the slice finds it.
Slot(k) == arrays[backends.ptr][k + 1]

\* C13: as long as no two AddBackend calls have run at the same time, the
\* pool holds the records added, in the order they were added: a new pool
\* holds none and its cursor is 0; between calls the pool's length is the
\* number of records added; the entries of the records added stay what and
\* where they are while further records are being appended; the length
\* never decreases and grows by one at a time; and no step of AddBackend
\* changes the cursor.
C13_AddBackendAppends ==
    /\ [](~overlap =>
            /\ made = 0 => backends = NilSlice /\ current = 0
            /\ RegIdle => Len0 = Len(added)
            /\ Len0 >= Len(added)
            /\ \A k \in 1 .. Len(added) : Slot(k - 1) = added[k] /\ added[k] = k - 1)
    /\ [][/\ ~overlap' => backends'.len \in {Len0, Len0 + 1}
          /\ (\E g \in Registrars : apc'[g] # apc[g]) => current' = current]_vars

\* Three records of differing liveness were added, the last ones after calls
\* had moved the cursor.
C13_Witness ==
    /\ ~overlap /\ RegIdle
    /\ added = <<0, 1, 2>>
    /\ Flag(0) /\ ~Flag(1) /\ Flag(2)
    /\ Len0 = Len(added)
    /\ current = MaxCursor

\* ---- selection during health checks (LiveSpec)

Reads(c) == reads[c]
NumReads(c) == Len(reads[c])
ReadDead(c, n) == \A k \in 1 .. n : ~Reads(c)[k].alive

\* C14: the reads of a GetNextPeer call on a pool registered before it are
\* of the indexes start, start+1, ... modulo N in that order, at most N of
\* them and so each index at most once; every read before the last found its
\* backend dead; a call still in its loop has read fewer than N indexes, all
\* dead, and its loop variable has advanced by the number of reads, so the
\* loop ends within N reads; a call that returned a backend returned the one
\* it read last, alive, and a call that returned nil read all N dead.
C14_ScanOrder ==
    \A c \in Watched :
        pc[c] # "idle" /\ op[c] = "GetNextPeer" /\ Len0 > 0 =>
            LET n == NumReads(c) IN
            /\ n <= Len0
            /\ \A k \in 1 .. n :
                 Reads(c)[k].idx = (next[c] + k - 1) % Len0 /\ Reads(c)[k].rec = Reads(c)[k].idx
            /\ ReadDead(c, n - 1)
            /\ pc[c] \in {"test", "add", "mod", "length"} => n = 0
            /\ InLoop(c) =>
                 /\ n < Len0 /\ ReadDead(c, n)
                 /\ i[c] = next[c] + n /\ length[c] = next[c] + Len0
            /\ pc[c] = "store" => n > 1
            /\ pc[c] \in {"store", "rheader", "relement"} =>
                 n >= 1 /\ Reads(c)[n].alive /\ Reads(c)[n].idx = idx[c]
            /\ pc[c] = "done" =>
                 IF ret[c] = Nil THEN n = Len0 /\ ReadDead(c, n)
                 ELSE n >= 1 /\ Reads(c)[n].alive /\ Reads(c)[n].idx = ret[c]

\* A call read every index of a pool of three, wrapping round the end, and
\* returned the last one, which the health checker had turned up meanwhile.
C14_Witness ==
    \E c \in Watched :
        /\ pc[c] = "done" /\ op[c] = "GetNextPeer"
        /\ NumReads(c) = Len0 /\ Len0 = MaxBackends
        /\ next[c] > 0 /\ ret[c] # Nil
        /\ ret[c] \notin steady[c]

\* The backends whose flag has had the one value since caller c's call began.
StayedDead(c) == {b \in steady[c] : ~Flag(b)}
StayedAlive(c) == {b \in steady[c] : Flag(b)}
WasRead(c, b) == \E k \in 1 .. NumReads(c) : Reads(c)[k].idx = b

\* C18: a GetNextPeer call never returns a backend that was marked dead
\* before the call began and has not been set alive since; and a call whose
\* scan reaches a backend that was marked alive before the call began and
\* has not been set dead since returns that backend.
C18_HealthCheckVisible ==
    \A c \in Watched :
        PeerDone(c) /\ Len0 > 0 =>
            /\ \A b \in StayedDead(c) : ret[c] # b
            /\ \A b \in StayedAlive(c) : WasRead(c, b) => ret[c] = b

\* The running pass has logged one backend down and another up; a call that
\* began after both were written read the dead one, passed it and returned
\* the live one.
C18_Witness ==
    \E c \in Watched : \E b \in StayedDead(c), a \in StayedAlive(c) :
        /\ PeerDone(c)
        /\ WasRead(c, b) /\ ret[c] = a
        /\ HcRunning
        /\ \E j \in 1 .. Len(logs), k \in 1 .. Len(logs) :
             logs[j] = <<b, "down">> /\ logs[k] = <<a, "up">>

\* C20: a GetNextPeer call on a non-empty pool registered before it,
\* concurrent with the health checker and other calls, returns a backend if
\* some backend has been alive from the call's beginning to its end, and the
\* backend a call returns is one that this call read as alive.
C20_ReturnsWhatItReadAlive ==
    \A c \in Watched :
        PeerDone(c) /\ Len0 > 0 =>
            /\ StayedAlive(c) # {} => ret[c] # Nil
            /\ ret[c] # Nil =>
                 \E k \in 1 .. NumReads(c) : Reads(c)[k].idx = ret[c] /\ Reads(c)[k].alive

\* A call returned a backend it read alive that the health checker has
\* turned down since, while the one backend alive throughout lay further on
\* in its scan, and another selection call is under way.
C20_Witness ==
    \E c \in Watched, d \in Callers :
        /\ PeerDone(c) /\ ret[c] # Nil /\ ~Flag(ret[c])
        /\ StayedAlive(c) # {} /\ \A b \in StayedAlive(c) : ~WasRead(c, b)
        /\ InFlight(d)

\* ---- increments under contention (CountSpec)

\* The calls that have made their increment and not yet returned.
Started == {c \in Callers : InFlight(c)}

\* C16: on a non-empty pool whose backends are all alive no call overwrites
\* the cursor, and the cursor equals its value at the start plus the number
\* of calls completed plus the number of calls in flight, in the counter's
\* arithmetic (the cursor of a new pool is 0); so once K calls have
\* completed and none is in flight the cursor is its value at the start
\* plus K.
C16_NoLostIncrement ==
    AllAlive /\ Len0 > 0 =>
        /\ \A c \in Callers : pc[c] # "store"
        /\ current = completed + Cardinality(Started)

\* On a full pool of alive backends the completed calls have taken the
\* count to the top of the counter's range, one caller has returned and
\* another, in flight, has wrapped the cursor round to 0.
C16_Witness ==
    /\ AllAlive /\ Len0 = MaxBackends
    /\ completed = 0 - 1 /\ current = 0
    /\ \E c \in Callers, d \in Callers :
         InLoop(c) /\ pc[d] = "done" /\ op[d] = "NextIndex"

\* Six calls, three by each of two callers, have completed on a fresh pool
\* of three alive backends and the cursor is 6.
C16_WitnessFresh ==
    /\ AllAlive /\ Len0 = MaxBackends
    /\ completed = 2 * MaxBackends /\ current = completed
    /\ \A c \in Callers : pc[c] = "done"

\* ---- fairness under contention (FairSpec)

Returned(b) == \E c \in Callers : PeerDone(c) /\ ret[c] = b

\* Calls enough to go once round the largest pool can still be made.
Headroom == current + MaxBackends <= MaxCursor

\* C21: with fixed liveness and callers calling GetNextPeer concurrently for
\* ever on the pool as registered, whenever a backend is alive (and the
\* calls can go on) some call returns it later on, unless a record is
\* registered first; as an alive backend stays alive, it is returned again
\* and again.
C21_EveryAliveBackendServed ==
    \A n \in 1 .. MaxBackends : \A b \in 0 .. n - 1 :
        (Len0 = n /\ Flag(b) /\ Headroom) ~> (Returned(b) \/ Len0 # n)

\* On a full pool with a dead backend and two alive ones, a call that found
\* its backend past the dead one is about to overwrite the cursor with an
\* index the cursor has left behind, another call having incremented it and
\* returned the other alive backend meanwhile.
C21_Witness ==
    /\ Len0 = MaxBackends /\ Cardinality(Live) = Len0 - 1
    /\ \E c \in Callers, d \in Callers :
         /\ pc[c] = "store" /\ Residue(current, Len0) # next[c]
         /\ Residue(current, Len0) # idx[c]
         /\ PeerDone(d) /\ ret[d] # idx[c]

=============================================================================
